---- MODULE Spec2Model ----
(***************************************************************************)
(* A model of the highlight search, the coordinate projection and the      *)
(* viewport bookkeeping of react-pdf-viewer.                               *)
(*                                                                         *)
(* Text is a sequence of one-character strings.  Offsets into a text are   *)
(* 0-based as in JavaScript: the character at offset i is text[i + 1].     *)
(* Numbers are integers; Math.sqrt is taken on perfect squares only.       *)
(***************************************************************************)
EXTENDS Integers, Sequences, FiniteSets, TLC

VARIABLES
    pdfDocument,         \* the document of the file: its pages (PDFDocumentProxy)
    searchText,          \* the text handed to the search functions
    ret,                 \* the value returned by the last call of a library function
    highlightComponent,  \* which of the two PDFHighlight components is built
    pageComponent,       \* which of the two PDFPage components is built
    currentPage,         \* the page shown (pageNumber prop of PDFPage)
    currentScale,        \* the zoom factor (scale prop of PDFPage)
    currentRotation,     \* the rotation in degrees (rotation prop of PDFPage)
    viewport,            \* PDFPage: the viewport state set by renderPage
    highlights,          \* the highlight collection (highlights prop)
    textLayer,           \* PDFPage: the spans of the text layer element
    appDocument,         \* App: TRUE once the pdfDocument state is set
    currentViewport,     \* App: the currentViewport state
    highlightRenderKey,  \* App: the key that remounts the viewer
    apiAvailable,        \* App: the result of the last API health check
    pending,             \* App: the asynchronous calls in flight
    passedProps,         \* PDFViewer: the props of the parent's last render
    props,               \* PDFViewer: the props of its own last render
    effectDeps,          \* PDFViewer: the dependencies each sync effect last ran with
    presentationMode,    \* PDFViewer: the presentationMode state
    isWorkerConfigured,  \* worker.ts: the module flag
    workerRetryCount,    \* worker.ts: the module counter
    GlobalWorkerOptions, \* pdfjsLib.GlobalWorkerOptions: its workerSrc property
    mounted,             \* PDFPage: "no", "yes" or "unmounted"
    renderingRef,        \* PDFPage: renderingRef.current
    renderTaskRef,       \* PDFPage: TRUE when renderTaskRef.current holds a task
    renderBodies,        \* PDFPage: the renderPage calls between their try and finally
    canvas,              \* PDFPage: the values the canvas was last rendered with
    file,                \* PDFViewer: the file prop
    pdf,                 \* PDFViewer: the pdf state, the file of the installed document
    loading,             \* PDFViewer: the loading state
    fileKeyRef,          \* PDFViewer: fileKeyRef.current
    lastSuccessfulFileRef, \* PDFViewer: lastSuccessfulFileRef.current
    loadingAbortControllerRef, \* PDFViewer: loadingAbortControllerRef.current
    loads,               \* PDFViewer: the loadPDF calls waiting for PDFLoader.loadPDF
    loadTimer            \* PDFViewer: TRUE when the debounce timer of the load effect is set

searchVars == <<pdfDocument, searchText, ret>>
buildVars == <<highlightComponent, pageComponent>>
viewVars == <<currentPage, currentScale, currentRotation, viewport, highlights, textLayer>>
appVars == <<appDocument, currentViewport, highlightRenderKey, apiAvailable, pending>>
viewerVars == <<passedProps, props, effectDeps, presentationMode>>
workerVars == <<isWorkerConfigured, workerRetryCount, GlobalWorkerOptions>>
pageVars == <<mounted, renderingRef, renderTaskRef, renderBodies, canvas>>
loadVars == <<file, pdf, loading, fileKeyRef, lastSuccessfulFileRef,
              loadingAbortControllerRef, loads, loadTimer>>
vars == <<searchVars, buildVars, viewVars, appVars, viewerVars, workerVars, pageVars,
          loadVars>>

(***************************************************************************)
(* Bounds of the model.                                                    *)
(***************************************************************************)
MaxRunLen == 2
MaxRuns == 3
MaxQueryLen == 2

TextAlphabet == {"a", ".", " "}
QueryAlphabet == {"a", "A", ".", "*", " ", "\\"}

(***************************************************************************)
(* JavaScript values that are not numbers or strings.                      *)
(***************************************************************************)
Null == "null"

\* undefined and NaN where a number is expected: two values outside the
\* numbers that occur in documents and viewports
Undefined == -1000001
NaN == -1000002

IsNumber(x) == x \notin {Undefined, NaN}

SeqsUpTo(S, n) == UNION {[1..k -> S] : k \in 0..n}

(***************************************************************************)
(* Text items of a page (pdf.js TextItem): str is the run's text, present  *)
(* as a string when isString holds; transform is [a, b, c, d, e, f].       *)
(***************************************************************************)
TextItem(str, transform, width, height) ==
    [str |-> str, isString |-> TRUE, transform |-> transform,
     hasTransform |-> TRUE, width |-> width, height |-> height]

\* destructuring [x0, .., x5] = transform: a missing component is undefined
Elem(t, i) == IF i <= Len(t) THEN t[i] ELSE Undefined

Abs(x) == IF ~IsNumber(x) THEN NaN ELSE IF x < 0 THEN -x ELSE x

(***************************************************************************)
(* The regular expression built from the search text.                      *)
(***************************************************************************)
MetaChars == {".", "*", "+", "?", "^", "$", "{", "}", "(", ")", "|", "[", "]", "\\"}

RECURSIVE EscapeRegExpNoDot(_)
EscapeRegExpNoDot(s) ==
    IF s = <<>> THEN <<>>
    ELSE (IF Head(s) \in MetaChars \ {"."} THEN <<"\\", Head(s)>> ELSE <<Head(s)>>)
         \o EscapeRegExpNoDot(Tail(s))

\* searchText.replace(/[.*+?^${}()|[\]\\]/g, '\\$&')
RECURSIVE EscapeRegExp(_)
EscapeRegExp(s) ==
    IF s = <<>> THEN <<>>
    ELSE (IF Head(s) \in MetaChars THEN <<"\\", Head(s)>> ELSE <<Head(s)>>)
         \o EscapeRegExp(Tail(s))

\* the 'i' flag: characters are compared by their canonical (case-folded) form
Canon(c) == IF c = "A" THEN "a" ELSE c

\* position after an optional * quantifier at position j of pattern p
AfterQuant(p, j) == IF j <= Len(p) /\ p[j] = "*" THEN j + 1 ELSE j

\* new RegExp(p) throws a SyntaxError unless the pattern is well formed:
\* a backslash needs a character after it, * needs an atom before it.  Of the
\* unescaped metacharacters the model reads '.' (any character) and '*'.
RECURSIVE PatternOK(_, _)
PatternOK(p, i) ==
    IF i > Len(p) THEN TRUE
    ELSE IF p[i] = "\\" THEN i + 1 <= Len(p) /\ PatternOK(p, AfterQuant(p, i + 2))
    ELSE IF p[i] = "." \/ p[i] \notin MetaChars THEN PatternOK(p, AfterQuant(p, i + 1))
    ELSE FALSE

\* the atoms of a well-formed pattern, from position i on
RECURSIVE ParseAtoms(_, _)
ParseAtoms(p, i) ==
    IF i > Len(p) THEN <<>>
    ELSE IF p[i] = "\\"
         THEN <<[kind |-> "lit", ch |-> p[i + 1],
                 star |-> AfterQuant(p, i + 2) # i + 2]>>
              \o ParseAtoms(p, AfterQuant(p, i + 2))
         ELSE <<[kind |-> IF p[i] = "." THEN "any" ELSE "lit", ch |-> p[i],
                 star |-> AfterQuant(p, i + 1) # i + 1]>>
              \o ParseAtoms(p, AfterQuant(p, i + 1))

AtomMatches(atom, c) == atom.kind = "any" \/ Canon(atom.ch) = Canon(c)

\* how many consecutive characters from offset i the atom matches
RECURSIVE MaxRepeat(_, _, _)
MaxRepeat(atom, text, i) ==
    IF i < Len(text) /\ AtomMatches(atom, text[i + 1])
    THEN 1 + MaxRepeat(atom, text, i + 1)
    ELSE 0

\* the backtracking matcher: the end offset of the first match of atoms k..
\* at offset i in priority order (a starred atom is greedy), or -1
RECURSIVE MatchHere(_, _, _, _)
RECURSIVE TryStar(_, _, _, _, _)
MatchHere(atoms, k, text, i) ==
    IF k > Len(atoms) THEN i
    ELSE IF atoms[k].star THEN TryStar(atoms, k, text, i, MaxRepeat(atoms[k], text, i))
    ELSE IF i < Len(text) /\ AtomMatches(atoms[k], text[i + 1])
         THEN MatchHere(atoms, k + 1, text, i + 1)
         ELSE -1
TryStar(atoms, k, text, i, n) ==
    LET r == MatchHere(atoms, k + 1, text, i + n)
    IN  IF r # -1 THEN r
        ELSE IF n = 0 THEN -1
        ELSE TryStar(atoms, k, text, i, n - 1)

NoMatch == [index |-> -1, end |-> -1]

\* searchRegex.exec(fullText) with lastIndex = j: the leftmost match at or
\* after offset j
RECURSIVE RegExpExec(_, _, _)
RegExpExec(atoms, text, j) ==
    IF j > Len(text) THEN NoMatch
    ELSE LET e == MatchHere(atoms, 1, text, j)
         IN  IF e # -1 THEN [index |-> j, end |-> e]
             ELSE RegExpExec(atoms, text, j + 1)

\* the 'g' flag: after a match, lastIndex is the end of the match
LastIndexAfterOverlapping(m) == m.index + 1
LastIndexAfter(m) == m.end

\* match[0]: the matched text
SubText(text, from, to) == [k \in 1..(to - from) |-> text[from + k]]

(***************************************************************************)
(* createHighlightsForText and searchTextInPage (utils.ts).                *)
(***************************************************************************)
\* searchText.trim() is empty
IsBlankNoTrim(s) == s = <<>>
IsBlank(s) == \A i \in 1..Len(s) : s[i] = " "

\* textContent.items.forEach: the items with a non-empty string take the
\* next offsets of fullText, the others are skipped
RECURSIVE BuildTextItemsNoSkip(_, _)
BuildTextItemsNoSkip(items, offset) ==
    IF items = <<>> THEN <<>>
    ELSE LET item == Head(items)
         IN  <<[text |-> item.str,
                startIndex |-> offset,
                endIndex |-> offset + Len(item.str),
                transform |-> item.transform,
                hasTransform |-> item.hasTransform,
                width |-> item.width,
                height |-> item.height]>>
             \o BuildTextItemsNoSkip(Tail(items), offset + Len(item.str))
RECURSIVE BuildTextItems(_, _)
BuildTextItems(items, offset) ==
    IF items = <<>> THEN <<>>
    ELSE LET item == Head(items)
         IN  IF item.isString /\ Len(item.str) > 0
             THEN <<[text |-> item.str,
                     startIndex |-> offset,
                     endIndex |-> offset + Len(item.str),
                     transform |-> item.transform,
                     hasTransform |-> item.hasTransform,
                     width |-> item.width,
                     height |-> item.height]>>
                  \o BuildTextItems(Tail(items), offset + Len(item.str))
             ELSE BuildTextItems(Tail(items), offset)

RECURSIVE JoinTexts(_)
JoinTexts(textItems) ==
    IF textItems = <<>> THEN <<>>
    ELSE Head(textItems).text \o JoinTexts(Tail(textItems))

\* the overlap test of a text item with the match [startIndex, endIndex)
OverlapsInclusive(textItem, startIndex, endIndex) ==
    textItem.endIndex >= startIndex /\ textItem.startIndex <= endIndex
Overlaps(textItem, startIndex, endIndex) ==
    textItem.endIndex > startIndex /\ textItem.startIndex < endIndex

\* the rectangle of one text item, "using PDF coordinates"
ItemRect(textItem) ==
    LET scaleX == Elem(textItem.transform, 1)
        scaleY == Elem(textItem.transform, 4)
        translateX == Elem(textItem.transform, 5)
        translateY == Elem(textItem.transform, 6)
        fontSize == Abs(scaleY)
    IN  [left |-> translateX,
         top |-> translateY,
         width |-> IF textItem.width # 0 THEN textItem.width
                   ELSE IF IsNumber(scaleX) THEN Abs(scaleX) * Len(textItem.text)
                   ELSE NaN,
         height |-> fontSize]

ContributingItems(textItems, startIndex, endIndex) ==
    LET Test(textItem) == Overlaps(textItem, startIndex, endIndex)
    IN  SelectSeq(textItems, Test)

MatchRects(textItems, startIndex, endIndex) ==
    LET contributing == ContributingItems(textItems, startIndex, endIndex)
    IN  [k \in 1..Len(contributing) |-> ItemRect(contributing[k])]

\* the while loop over searchRegex.exec(fullText) of one page; a match of
\* length 0 would leave lastIndex where it is, which a non-blank escaped
\* search text never produces
RECURSIVE PageHighlights(_, _, _, _, _, _, _)
PageHighlights(atoms, fullText, textItems, pageNum, lastIndex, color, opacity) ==
    LET match == RegExpExec(atoms, fullText, lastIndex)
    IN  IF match = NoMatch \/ match.end = match.index THEN <<>>
        ELSE LET rects == MatchRects(textItems, match.index, match.end)
             IN  (IF Len(rects) > 0
                  THEN <<[id |-> [kind |-> "highlight", page |-> pageNum,
                                  n |-> match.index],
                          pageNumber |-> pageNum,
                          rects |-> rects,
                          color |-> color,
                          opacity |-> opacity,
                          content |-> SubText(fullText, match.index, match.end)]>>
                  ELSE <<>>)
                 \o PageHighlights(atoms, fullText, textItems, pageNum,
                                   LastIndexAfter(match), color, opacity)

\* destructuring the transform of a contributing item that has none throws
RECURSIVE PageThrows(_, _, _, _)
PageThrows(atoms, fullText, textItems, lastIndex) ==
    LET match == RegExpExec(atoms, fullText, lastIndex)
    IN  IF match = NoMatch \/ match.end = match.index THEN FALSE
        ELSE LET contributing == ContributingItems(textItems, match.index, match.end)
             IN  \/ \E k \in 1..Len(contributing) : ~contributing[k].hasTransform
                 \/ PageThrows(atoms, fullText, textItems, LastIndexAfter(match))

NullDocument == [isNull |-> TRUE, pages |-> <<>>]
Document(pages) == [isNull |-> FALSE, pages |-> pages]
NumPages(doc) == Len(doc.pages)

RECURSIVE HighlightsFromPage(_, _, _, _, _)
HighlightsFromPage(doc, atoms, pageNum, color, opacity) ==
    IF pageNum > NumPages(doc) THEN <<>>
    ELSE LET textItems == BuildTextItems(doc.pages[pageNum].items, 0)
         IN  PageHighlights(atoms, JoinTexts(textItems), textItems, pageNum, 0,
                            color, opacity)
             \o HighlightsFromPage(doc, atoms, pageNum + 1, color, opacity)

DefaultColor == "#ffff00"
DefaultOpacity == "0.3"

createHighlightsForText(doc, text, color, opacity) ==
    IF doc.isNull \/ IsBlank(text) THEN <<>>
    ELSE LET pattern == EscapeRegExp(text)
         IN  IF NumPages(doc) > 0 /\ ~PatternOK(pattern, 1) THEN <<>>   \* caught
             ELSE LET atoms == ParseAtoms(pattern, 1)
                  IN  IF \E p \in 1..NumPages(doc) :
                            LET textItems == BuildTextItems(doc.pages[p].items, 0)
                            IN  PageThrows(atoms, JoinTexts(textItems), textItems, 0)
                      THEN <<>>                                          \* caught
                      ELSE HighlightsFromPage(doc, atoms, 1, color, opacity)

\* the first text item that contains offset startIndex, as a sequence of
\* at most one element
ItemAt(textItems, startIndex) ==
    LET Test(textItem) ==
            textItem.startIndex <= startIndex /\ textItem.endIndex > startIndex
        containing == SelectSeq(textItems, Test)
    IN  IF containing = <<>> THEN <<>> ELSE <<Head(containing)>>

RECURSIVE PageMatches(_, _, _, _, _)
PageMatches(atoms, fullText, textItems, pageNumber, lastIndex) ==
    LET match == RegExpExec(atoms, fullText, lastIndex)
    IN  IF match = NoMatch \/ match.end = match.index THEN <<>>
        ELSE LET at == ItemAt(textItems, match.index)
             IN  (IF at # <<>>
                  THEN <<[text |-> SubText(fullText, match.index, match.end),
                          pageNumber |-> pageNumber,
                          position |-> [x |-> Elem(at[1].transform, 5),
                                        y |-> Elem(at[1].transform, 6)]]>>
                  ELSE <<>>)
                 \o PageMatches(atoms, fullText, textItems, pageNumber,
                                LastIndexAfter(match))

\* destructuring the transform of the item that contains a match throws
RECURSIVE PageMatchThrows(_, _, _, _)
PageMatchThrows(atoms, fullText, textItems, lastIndex) ==
    LET match == RegExpExec(atoms, fullText, lastIndex)
    IN  IF match = NoMatch \/ match.end = match.index THEN FALSE
        ELSE LET at == ItemAt(textItems, match.index)
             IN  \/ at # <<>> /\ ~at[1].hasTransform
                 \/ PageMatchThrows(atoms, fullText, textItems, LastIndexAfter(match))

searchTextInPage(doc, pageNumber, text) ==
    IF doc.isNull \/ IsBlank(text) \/ pageNumber < 1 \/ pageNumber > NumPages(doc)
    THEN <<>>
    ELSE LET pattern == EscapeRegExp(text)
             textItems == BuildTextItems(doc.pages[pageNumber].items, 0)
             fullText == JoinTexts(textItems)
         IN  IF ~PatternOK(pattern, 1) THEN <<>>                         \* caught
             ELSE IF PageMatchThrows(ParseAtoms(pattern, 1), fullText, textItems, 0)
                  THEN <<>>                                              \* caught
                  ELSE PageMatches(ParseAtoms(pattern, 1), fullText, textItems,
                                   pageNumber, 0)

(***************************************************************************)
(* The search functions applied to bounded documents and search texts.     *)
(***************************************************************************)
RunTexts == SeqsUpTo(TextAlphabet, MaxRunLen)

\* a page of runs laid out on one line: run k of text t starts at x = 50 * k
SearchPage(strs) ==
    [width |-> 612, height |-> 792,
     items |-> [k \in 1..Len(strs) |->
                   TextItem(strs[k], <<12, 0, 0, 12, 50 * k, 700>>,
                            6 * Len(strs[k]), 12)]]

SecondPage == SearchPage(<<<<"a">>, <<".", "A">>>>)

SearchDocuments ==
    {NullDocument}
    \cup {Document(<<SearchPage(strs)>> \o rest) :
             strs \in SeqsUpTo(RunTexts, MaxRuns), rest \in {<<>>, <<SecondPage>>}}

NoReturn == [fn |-> "none", page |-> 0, value |-> <<>>]

\* the state of the viewer components after construction
NoViewport == [isNull |-> TRUE, width |-> 0, height |-> 0, scale |-> 0, rotation |-> 0]

(***************************************************************************)
(* worker.ts: the worker source of pdf.js and the module state that guards *)
(* its configuration.  A string that may be missing is a record with the   *)
(* flag isSet; the module is imported before anything else runs.           *)
(***************************************************************************)
MAX_WORKER_RETRIES == 3

NoString == [isSet |-> FALSE, str |-> <<>>]
String(str) == [isSet |-> TRUE, str |-> str]

\* the three CDN addresses, in the order of the array
fallbackWorkers == <<String(<<"jsdelivr">>), String(<<"unpkg">>), String(<<"cdnjs">>)>>

\* !x of a string that may be missing
Falsy(x) == ~x.isSet \/ x.str = <<>>

WorkerState(configured, retryCount, workerSrc) ==
    [isWorkerConfigured |-> configured, workerRetryCount |-> retryCount,
     workerSrc |-> workerSrc]

\* configurePDFWorker(workerSrc, force): the module state after the call
configurePDFWorker(state, workerSrc, force) ==
    IF state.isWorkerConfigured /\ ~force
    THEN state
    ELSE LET cleared == IF force THEN NoString ELSE state.workerSrc
         IN  WorkerState(TRUE, state.workerRetryCount,
                 IF ~Falsy(workerSrc) /\ ~IsBlank(workerSrc.str) THEN workerSrc
                 ELSE IF Falsy(cleared)
                      THEN fallbackWorkers[(state.workerRetryCount % Len(fallbackWorkers)) + 1]
                      ELSE cleared)

resetWorkerConfiguration(state) ==
    configurePDFWorker(WorkerState(FALSE, 0, NoString), NoString, TRUE)

\* retryWorkerConfiguration: the state after the call; it returns whether it retried
retryWorkerConfiguration(state) ==
    IF state.workerRetryCount < MAX_WORKER_RETRIES
    THEN configurePDFWorker(
             WorkerState(FALSE, state.workerRetryCount + 1, state.workerSrc), NoString, TRUE)
    ELSE state

getWorkerSrc(state) == state.workerSrc

\* the module after "configurePDFWorker()" at the end of worker.ts has run
ImportedWorker == configurePDFWorker(WorkerState(FALSE, 0, NoString), NoString, FALSE)

InitWorker ==
    /\ isWorkerConfigured = ImportedWorker.isWorkerConfigured
    /\ workerRetryCount = ImportedWorker.workerRetryCount
    /\ GlobalWorkerOptions = ImportedWorker.workerSrc

\* the defaults of the PDFViewer props
\* the canvas before its first render
NoCanvas == [pageNumber |-> 0, scale |-> 0, rotation |-> 0]

\* loadingAbortControllerRef.current = null
NoController == [isNull |-> TRUE, aborted |-> FALSE]

DefaultProps ==
    [page |-> 1, scale |-> 1, rotation |-> 0, highlights |-> <<>>,
     enableKeyboardShortcuts |-> TRUE]

\* the dependency arrays of the three prop sync effects
SyncDeps(viewerProps, page, scale, rotation) ==
    [page |-> <<viewerProps.page, page>>,
     scale |-> <<viewerProps.scale, scale>>,
     rotation |-> <<viewerProps.rotation, rotation>>]

InitViewer ==
    /\ InitWorker
    /\ passedProps = DefaultProps
    /\ props = DefaultProps
    /\ effectDeps = SyncDeps(DefaultProps, 1, 1, 0)
    /\ presentationMode = FALSE
    /\ mounted = "no"
    /\ renderingRef = FALSE
    /\ renderTaskRef = FALSE
    /\ renderBodies = {}
    /\ canvas = NoCanvas
    /\ file = "a.pdf"
    /\ pdf = Null
    /\ loading = FALSE
    /\ fileKeyRef = ""
    /\ lastSuccessfulFileRef = ""
    /\ loadingAbortControllerRef = NoController
    /\ loads = {}
    /\ loadTimer = TRUE
    /\ currentPage = 1
    /\ currentScale = 1
    /\ currentRotation = 0
    /\ viewport = NoViewport
    /\ highlights = <<>>
    /\ textLayer = <<>>
    /\ appDocument = FALSE
    /\ currentViewport = NoViewport
    /\ highlightRenderKey = 0
    /\ apiAvailable = FALSE
    /\ pending = {}

InitSearch ==
    /\ pdfDocument \in SearchDocuments
    /\ searchText \in SeqsUpTo(QueryAlphabet, MaxQueryLen)
    /\ ret = NoReturn
    /\ highlightComponent = "lib"
    /\ pageComponent = "lib"
    /\ InitViewer

\* each behaviour applies one function once to the inputs drawn by InitSearch
CallCreateHighlights ==
    /\ ret = NoReturn
    /\ ret' = [fn |-> "createHighlightsForText", page |-> 0,
               value |-> createHighlightsForText(pdfDocument, searchText,
                                                 DefaultColor, DefaultOpacity)]
    /\ UNCHANGED <<pdfDocument, searchText, buildVars, pageVars, loadVars, workerVars, viewerVars, viewVars, appVars>>

CallSearchTextInPage(pageNumber) ==
    /\ ret = NoReturn
    /\ ret' = [fn |-> "searchTextInPage", page |-> pageNumber,
               value |-> searchTextInPage(pdfDocument, pageNumber, searchText)]
    /\ UNCHANGED <<pdfDocument, searchText, buildVars, pageVars, loadVars, workerVars, viewerVars, viewVars, appVars>>

NextSearch ==
    \/ CallCreateHighlights
    \/ \E pageNumber \in 0..3 : CallSearchTextInPage(pageNumber)

SpecSearch == InitSearch /\ [][NextSearch]_vars

(***************************************************************************)
(* Reference notions the search results are compared with.  They read the  *)
(* document directly and use no regular expression.                        *)
(***************************************************************************)
HasText(item) == item.isString /\ Len(item.str) > 0

\* the text is empty once the blanks at its ends are removed
OnlyBlanks(text) == {k \in 1..Len(text) : text[k] # " "} = {}

RECURSIVE PageFullText(_)
PageFullText(items) ==
    IF items = <<>> THEN <<>>
    ELSE (IF HasText(Head(items)) THEN Head(items).str ELSE <<>>)
         \o PageFullText(Tail(items))

\* the offsets of fullText that item k of the page takes up
RunOffsets(items, k) ==
    LET before == Len(PageFullText(SubSeq(items, 1, k - 1)))
    IN  IF HasText(items[k]) THEN before..(before + Len(items[k].str) - 1) ELSE {}

\* the query occurs in text at offset p, letter case aside
OccursAt(text, query, p) ==
    /\ p + Len(query) <= Len(text)
    /\ \A k \in 1..Len(query) : Canon(text[p + k]) = Canon(query[k])

\* the plain leftmost scan for non-overlapping occurrences from offset p on
RECURSIVE PlainScan(_, _, _)
PlainScan(text, query, p) ==
    IF query = <<>> \/ p + Len(query) > Len(text) THEN <<>>
    ELSE IF OccursAt(text, query, p)
         THEN <<[startIndex |-> p, endIndex |-> p + Len(query)]>>
              \o PlainScan(text, query, p + Len(query))
         ELSE PlainScan(text, query, p + 1)

OnPageUnfiltered(highlightList, pageNumber) == highlightList
OnPage(highlightList, pageNumber) ==
    LET Test(h) == h.pageNumber = pageNumber
    IN  SelectSeq(highlightList, Test)

\* the match span of a highlight of the built-in search: its id holds the
\* start offset, its content the matched text
Span(h) == [startIndex |-> h.id.n, endIndex |-> h.id.n + Len(h.content)]

Spans(highlightList) == [k \in 1..Len(highlightList) |-> Span(highlightList[k])]

Searched ==
    /\ ret.fn = "createHighlightsForText"
    /\ ~pdfDocument.isNull
    /\ ~OnlyBlanks(searchText)

PageNumbers == 1..NumPages(pdfDocument)

\* C1: the matches reported on one page do not overlap and are in strictly
\* ascending order of startIndex, and every occurrence of the query that is
\* not reported lies under a reported match that starts before it.
ThmC1_NonOverlappingAscending ==
    Searched =>
        \A p \in PageNumbers :
            LET found == Spans(OnPage(ret.value, p))
                text == PageFullText(pdfDocument.pages[p].items)
            IN  /\ \A i \in 1..Len(found) : \A j \in 1..Len(found) :
                      i < j => /\ found[i].endIndex <= found[j].startIndex
                               /\ found[i].startIndex < found[j].startIndex
                /\ \A o \in 0..Len(text) :
                      OccursAt(text, searchText, o) =>
                          \E i \in 1..Len(found) :
                              /\ found[i].startIndex <= o
                              /\ o < found[i].endIndex

\* an occurrence is left out because it overlaps the reported one before it
WitC1_OverlappingOccurrence ==
    /\ Searched
    /\ \E p \in PageNumbers :
          LET found == Spans(OnPage(ret.value, p))
              text == PageFullText(pdfDocument.pages[p].items)
          IN  \E o \in 0..Len(text) :
                 /\ OccursAt(text, searchText, o)
                 /\ \E i \in 1..Len(found) :
                       found[i].startIndex < o /\ o < found[i].endIndex
                 /\ \A i \in 1..Len(found) : found[i].startIndex # o

\* C2: the rects of a match [s, e) come from exactly the runs that share an
\* offset with [s, e), one rect per run in run order; run k of a page of
\* SearchDocuments is the one placed at left = 50 * k.
ThmC2_ContributingRuns ==
    Searched =>
        \A n \in 1..Len(ret.value) :
            LET h == ret.value[n]
                items == pdfDocument.pages[h.pageNumber].items
                span == Span(h)
                matchOffsets == span.startIndex..(span.endIndex - 1)
                sharing == {k \in 1..Len(items) :
                               RunOffsets(items, k) \cap matchOffsets # {}}
            IN  /\ {h.rects[r].left : r \in 1..Len(h.rects)} = {50 * k : k \in sharing}
                /\ Len(h.rects) = Cardinality(sharing)
                /\ \A r \in 1..(Len(h.rects) - 1) : h.rects[r].left < h.rects[r + 1].left

\* a match over a run boundary, with a run before it and a run after it
\* that touch the match and do not contribute
WitC2_RunsBeforeAndAfter ==
    /\ Searched
    /\ \E n \in 1..Len(ret.value) :
          LET h == ret.value[n]
              items == pdfDocument.pages[h.pageNumber].items
              span == Span(h)
          IN  /\ Len(h.rects) = 1
              /\ \E k \in 1..Len(items) :
                    /\ HasText(items[k])
                    /\ \A o \in RunOffsets(items, k) : o < span.startIndex
                    /\ span.startIndex - 1 \in RunOffsets(items, k)
              /\ \E k \in 1..Len(items) :
                    /\ HasText(items[k])
                    /\ span.endIndex \in RunOffsets(items, k)

\* a match that takes part of two runs gets the rect of both
WitC2_TwoRuns ==
    /\ Searched
    /\ \E n \in 1..Len(ret.value) : Len(ret.value[n].rects) = 2

\* C3: a blank search text gives an empty result, and a page without text
\* runs gives no match, for both search functions.
ThmC3_EmptyResult ==
    /\ (ret.fn = "createHighlightsForText" /\ OnlyBlanks(searchText)) => ret.value = <<>>
    /\ (ret.fn = "searchTextInPage" /\ OnlyBlanks(searchText)) => ret.value = <<>>
    /\ ret.fn = "createHighlightsForText" =>
          \A p \in PageNumbers :
              (\A k \in 1..Len(pdfDocument.pages[p].items) :
                    ~HasText(pdfDocument.pages[p].items[k]))
                  => OnPage(ret.value, p) = <<>>
    /\ (ret.fn = "searchTextInPage" /\ ret.page \in PageNumbers) =>
          ((\A k \in 1..Len(pdfDocument.pages[ret.page].items) :
                ~HasText(pdfDocument.pages[ret.page].items[k]))
              => ret.value = <<>>)

\* a search text of blanks only was searched in a page that holds a blank
WitC3_BlankQuery ==
    /\ ret.fn = "createHighlightsForText"
    /\ ~pdfDocument.isNull
    /\ searchText # <<>>
    /\ OnlyBlanks(searchText)
    /\ \E o \in 0..2 : OccursAt(PageFullText(pdfDocument.pages[1].items), searchText, o)

\* a non-blank search text was searched in a document whose first page has
\* no text run and whose second page has a match
WitC3_NoRuns ==
    /\ Searched
    /\ NumPages(pdfDocument) = 2
    /\ PageFullText(pdfDocument.pages[1].items) = <<>>
    /\ ret.value # <<>>

\* C4: the match spans are those of the plain case-insensitive leftmost
\* non-overlapping substring scan, whatever metacharacters the search text
\* holds; searchTextInPage reports the same matches in the same order.
ThmC4_LiteralMatch ==
    /\ Searched =>
          \A p \in PageNumbers :
              Spans(OnPage(ret.value, p))
                  = PlainScan(PageFullText(pdfDocument.pages[p].items), searchText, 0)
    /\ (ret.fn = "searchTextInPage" /\ ret.page \in PageNumbers /\ ~OnlyBlanks(searchText)) =>
          LET text == PageFullText(pdfDocument.pages[ret.page].items)
              plain == PlainScan(text, searchText, 0)
          IN  /\ Len(ret.value) = Len(plain)
              /\ \A k \in 1..Len(plain) :
                    ret.value[k].text = SubText(text, plain[k].startIndex, plain[k].endIndex)

\* a search text with a metacharacter found its literal occurrence in a page
\* that also holds text the unescaped pattern would match
WitC4_MetaQuery ==
    /\ Searched
    /\ \E k \in 1..Len(searchText) : searchText[k] = "."
    /\ \E n \in 1..Len(ret.value) :
          /\ ret.value[n].pageNumber = 1
          /\ \E o \in 0..Len(PageFullText(pdfDocument.pages[1].items)) :
                ~OccursAt(PageFullText(pdfDocument.pages[1].items), searchText, o)
                /\ o + Len(searchText) <= Len(PageFullText(pdfDocument.pages[1].items))

(***************************************************************************)
(* The viewport, the highlight boxes and the text layer.                   *)
(*                                                                         *)
(* The repository holds two PDFHighlight components and two PDFPage        *)
(* components: "lib" names the first (PDFHighlight.tsx:1-95, PDFPage.tsx), *)
(* "second" the other (PDFHighlight.tsx:96-186, types.ts:895-1427).        *)
(***************************************************************************)
Components == {"lib", "second"}

\* pdfPage.getViewport({ scale, rotation }) of pdf.js: the page box scaled,
\* its sides swapped by a quarter turn
getViewport(page, scale, rotation) ==
    [isNull |-> FALSE,
     width |-> IF rotation \in {0, 180} THEN page.width * scale ELSE page.height * scale,
     height |-> IF rotation \in {0, 180} THEN page.height * scale ELSE page.width * scale,
     scale |-> scale,
     rotation |-> rotation]

\* Math.sqrt on a perfect square
Sqrt(n) == CHOOSE r \in 0..n : r * r = n

\* PDFHighlight.tsx:21-58: the rect is drawn as it is
renderHighlight(rect, pdfViewport) ==
    [left |-> rect.left,
     top |-> rect.top,
     width |-> rect.width,
     height |-> rect.height]

\* PDFHighlight.tsx:116-128: the rect is taken as PDF coordinates
renderHighlightSimplified(rect, pdfViewport) ==
    [left |-> rect.left * pdfViewport.scale,
     top |-> (pdfViewport.height - rect.top - rect.height) * pdfViewport.scale,
     width |-> rect.width * pdfViewport.scale,
     height |-> rect.height * pdfViewport.scale]

\* the PDFHighlight component: the highlights of the page, one box per rect
PDFHighlight(component, highlightList, pageNumber, pdfViewport) ==
    LET shown == OnPage(highlightList, pageNumber)
    IN  [k \in 1..Len(shown) |->
            [id |-> shown[k].id,
             boxes |-> [r \in 1..Len(shown[k].rects) |->
                          IF component = "lib"
                          THEN renderHighlight(shown[k].rects[r], pdfViewport)
                          ELSE renderHighlightSimplified(shown[k].rects[r], pdfViewport)]]]

\* the highlight layer of PDFPage: present when there are highlights and a viewport
HighlightLayer(component, highlightList, pageNumber, pdfViewport) ==
    IF Len(highlightList) > 0 /\ ~pdfViewport.isNull
    THEN PDFHighlight(component, OnPage(highlightList, pageNumber), pageNumber, pdfViewport)
    ELSE <<>>

\* the boxes on the screen
Drawn == HighlightLayer(highlightComponent, highlights, currentPage, viewport)

\* PDFPage.tsx renderTextLayer: the span of one text item; width 0 is no width
TextSpan(textItem, pdfViewport) ==
    LET scaleX == textItem.transform[1]
        skewY == textItem.transform[2]
        skewX == textItem.transform[3]
        scaleY == textItem.transform[4]
        translateX == textItem.transform[5]
        translateY == textItem.transform[6]
    IN  [text |-> textItem.str,
         fontSize |-> Sqrt(scaleX * scaleX + skewY * skewY) * pdfViewport.scale,
         left |-> translateX * pdfViewport.scale,
         top |-> (translateY - Sqrt(skewX * skewX + scaleY * scaleY)) * pdfViewport.scale,
         width |-> IF textItem.width > 0 THEN textItem.width * pdfViewport.scale ELSE 0]

\* types.ts renderTextLayerHybrid: the span of one text item
TextSpanHybrid(textItem, pdfViewport) ==
    LET scaleY == textItem.transform[4]
        translateX == textItem.transform[5]
        translateY == textItem.transform[6]
        fontSize == Abs(scaleY)
        actualFontSize == fontSize * pdfViewport.scale
    IN  [text |-> textItem.str,
         fontSize |-> actualFontSize,
         left |-> translateX * pdfViewport.scale,
         top |-> pdfViewport.height - (translateY * pdfViewport.scale) - actualFontSize,
         width |-> 0]

\* the items that get a span: text present (and not blank, in PDFPage.tsx)
\* and a transform of 6 components
SpanItems(component, items) ==
    LET Test(textItem) ==
            /\ textItem.isString /\ Len(textItem.str) > 0
            /\ component = "lib" => ~IsBlank(textItem.str)
            /\ textItem.hasTransform /\ Len(textItem.transform) >= 6
    IN  SelectSeq(items, Test)

\* the spans one run of renderTextLayer appends
TextLayerSpans(component, page, pdfViewport) ==
    LET spanItems == SpanItems(component, page.items)
    IN  [k \in 1..Len(spanItems) |->
            IF component = "lib" THEN TextSpan(spanItems[k], pdfViewport)
            ELSE TextSpanHybrid(spanItems[k], pdfViewport)]

(***************************************************************************)
(* The API path: convertToReactHighlights (highlightAPI.ts).  The backend  *)
(* answers with normalized rectangles; a coordinate n stands for n / 4 of  *)
(* the page side.                                                          *)
(***************************************************************************)
getViewportInfo(pdfViewport) ==
    [width |-> pdfViewport.width, height |-> pdfViewport.height,
     scale |-> pdfViewport.scale, rotation |-> pdfViewport.rotation]

ApiRectToRect(apiRect, viewportInfo) ==
    [left |-> (apiRect.left * viewportInfo.width) \div 4,
     top |-> (apiRect.top * viewportInfo.height) \div 4,
     width |-> (apiRect.width * viewportInfo.width) \div 4,
     height |-> (apiRect.height * viewportInfo.height) \div 4]

convertToReactHighlights(matches, viewportInfo) ==
    [matchIndex \in 1..Len(matches) |->
        [id |-> [kind |-> "api-highlight", page |-> matches[matchIndex].page_number,
                 n |-> matchIndex - 1],
         pageNumber |-> matches[matchIndex].page_number,
         rects |-> [r \in 1..Len(matches[matchIndex].rectangles) |->
                       ApiRectToRect(matches[matchIndex].rectangles[r], viewportInfo)],
         color |-> DefaultColor,
         opacity |-> DefaultOpacity,
         content |-> matches[matchIndex].matched_text]]

(***************************************************************************)
(* The projection applied to bounded runs and viewports: every step is a   *)
(* search or a change of the view followed by the complete render.         *)
(***************************************************************************)
Scales == {1, 2, 4}

HelloWorld == <<"H", "e", "l", "l", "o", " ", "w", "o", "r", "l", "d">>
World == <<"w", "o", "r", "l", "d">>

ProjectPage(scaleX, scaleY, translateY, width, height) ==
    [width |-> 612, height |-> 792,
     items |-> <<TextItem(HelloWorld, <<scaleX, 0, 0, scaleY, 50, translateY>>,
                          width, height)>>]

OtherPage ==
    [width |-> 612, height |-> 792,
     items |-> <<TextItem(World, <<12, 0, 0, 12, 100, 400>>, 30, 12)>>]

ProjectDocuments ==
    {Document(<<ProjectPage(scaleX, scaleY, translateY, width, height), OtherPage>>) :
        scaleX \in {10, 12}, scaleY \in {12, -12}, translateY \in {700, 100},
        width \in {66, 0}, height \in {12, 14}}

\* the page of the end-to-end example, with a second page
ExampleDocument == Document(<<ProjectPage(12, 12, 700, 66, 12), OtherPage>>)

\* what the backend may answer for a search on one page
ApiMatches(pageNumber) ==
    {<<[page_number |-> pageNumber, matched_text |-> World,
        rectangles |-> <<[left |-> 1, top |-> top, width |-> 1, height |-> 1]>>]>> :
        top \in {1, 2}}

InitProject ==
    /\ pdfDocument \in ProjectDocuments
    /\ searchText = World
    /\ ret = NoReturn
    /\ highlightComponent \in Components
    /\ pageComponent \in Components
    /\ InitViewer

\* renderPage run to its end: the viewport of the props, then the text layer
RenderPage(pageNumber, scale, rotation) ==
    LET pdfPage == pdfDocument.pages[pageNumber]
        pdfViewport == getViewport(pdfPage, scale, rotation)
    IN  /\ viewport' = pdfViewport
        /\ textLayer' = TextLayerSpans(pageComponent, pdfPage, pdfViewport)

ProjMount ==
    /\ viewport.isNull
    /\ RenderPage(currentPage, currentScale, currentRotation)
    /\ UNCHANGED <<searchVars, buildVars, pageVars, loadVars, workerVars, viewerVars, appVars, currentPage, currentScale, currentRotation,
                   highlights>>

ProjSetScale(scale) ==
    /\ ~viewport.isNull
    /\ scale # currentScale
    /\ currentScale' = scale
    /\ RenderPage(currentPage, scale, currentRotation)
    /\ UNCHANGED <<searchVars, buildVars, pageVars, loadVars, workerVars, viewerVars, appVars, currentPage, currentRotation, highlights>>

ProjRotate ==
    /\ ~viewport.isNull
    /\ currentRotation' = (currentRotation + 90) % 360
    /\ RenderPage(currentPage, currentScale, (currentRotation + 90) % 360)
    /\ UNCHANGED <<searchVars, buildVars, pageVars, loadVars, workerVars, viewerVars, appVars, currentPage, currentScale, highlights>>

ProjSetPage(pageNumber) ==
    /\ ~viewport.isNull
    /\ pageNumber # currentPage
    /\ currentPage' = pageNumber
    /\ RenderPage(pageNumber, currentScale, currentRotation)
    /\ UNCHANGED <<searchVars, buildVars, pageVars, loadVars, workerVars, viewerVars, appVars, currentScale, currentRotation, highlights>>

ProjSearchBuiltIn ==
    /\ ~viewport.isNull
    /\ highlights' = createHighlightsForText(pdfDocument, searchText,
                                             DefaultColor, DefaultOpacity)
    /\ UNCHANGED <<searchVars, buildVars, pageVars, loadVars, workerVars, viewerVars, appVars, currentPage, currentScale, currentRotation,
                   viewport, textLayer>>

ProjSearchApi ==
    /\ ~viewport.isNull
    /\ \E matches \in ApiMatches(currentPage) :
          highlights' = convertToReactHighlights(matches, getViewportInfo(viewport))
    /\ UNCHANGED <<searchVars, buildVars, pageVars, loadVars, workerVars, viewerVars, appVars, currentPage, currentScale, currentRotation,
                   viewport, textLayer>>

ProjClear ==
    /\ highlights # <<>>
    /\ highlights' = <<>>
    /\ UNCHANGED <<searchVars, buildVars, pageVars, loadVars, workerVars, viewerVars, appVars, currentPage, currentScale, currentRotation,
                   viewport, textLayer>>

\* the parent passes the results of two searches, merged in some order, as
\* the highlights prop
ProjMergeHighlights ==
    /\ ~viewport.isNull
    /\ \E matches \in ApiMatches(currentPage) :
          LET merged == createHighlightsForText(pdfDocument, searchText,
                                                DefaultColor, DefaultOpacity)
                          \o convertToReactHighlights(matches, getViewportInfo(viewport))
          IN  \E order \in Permutations(1..Len(merged)) :
                 highlights' = [n \in 1..Len(merged) |-> merged[order[n]]]
    /\ UNCHANGED <<searchVars, buildVars, pageVars, loadVars, workerVars, viewerVars, appVars, currentPage, currentScale, currentRotation,
                   viewport, textLayer>>

NextProject ==
    \/ ProjMount
    \/ \E scale \in Scales : ProjSetScale(scale)
    \/ ProjRotate
    \/ \E pageNumber \in 1..NumPages(pdfDocument) : ProjSetPage(pageNumber)
    \/ ProjSearchBuiltIn
    \/ ProjSearchApi
    \/ ProjClear

SpecProject == InitProject /\ [][NextProject]_vars

\* the viewer showing merged results on the example document
InitMerge ==
    /\ pdfDocument = ExampleDocument
    /\ searchText = World
    /\ ret = NoReturn
    /\ highlightComponent \in Components
    /\ pageComponent \in Components
    /\ InitViewer

NextMerge ==
    \/ ProjMount
    \/ \E scale \in Scales : ProjSetScale(scale)
    \/ \E pageNumber \in 1..NumPages(pdfDocument) : ProjSetPage(pageNumber)
    \/ ProjMergeHighlights
    \/ ProjClear

SpecMerge == InitMerge /\ [][NextMerge]_vars

(***************************************************************************)
(* The coordinate space of rects, as the producers and the renderers       *)
(* declare it.                                                             *)
(***************************************************************************)
\* utils.ts:71 computes the rect "using PDF coordinates"; highlightAPI.ts:172
\* converts to "PDF.js viewport coordinates"
RectSpace(h) == IF h.id.kind = "api-highlight" THEN "viewport" ELSE "pdf"

\* PDFHighlight.tsx:25 takes rects as "already converted to viewport pixels",
\* PDFHighlight.tsx:120 as "PDF coordinates"
RendererInputSpace(component) == IF component = "lib" THEN "viewport" ELSE "pdf"

BuiltInHighlights ==
    /\ highlights # <<>>
    /\ \A n \in 1..Len(highlights) : highlights[n].id.kind = "highlight"

\* C5: every rect the renderer draws as CSS pixels is a rect in the pixel
\* space of the viewport, whichever search produced it.
CexC5_OneCoordinateSpace ==
    \A n \in 1..Len(highlights) :
        (Drawn # <<>> /\ highlights[n].pageNumber = currentPage)
            => RectSpace(highlights[n]) = RendererInputSpace(highlightComponent)

\* the run that rect r of a highlight of the built-in search comes from
RunOfRect(h, r) ==
    LET textItems == BuildTextItems(pdfDocument.pages[h.pageNumber].items, 0)
    IN  ContributingItems(textItems, Span(h).startIndex, Span(h).endIndex)[r]

Near(x, y) == x - y \in -1..1

\* C6: at rotation 0 the box drawn for a contributing run [a,b,c,d,e,f] of
\* width w and height h is left = e*s, top = (H - f - h)*s, width = w*s,
\* height = h*s; the run 'Hello world' at [12,0,0,12,50,700] searched for
\* 'world' at scale 1 gives one highlight with one box at left 50, top 80.
CexC6_HighlightBox ==
    (BuiltInHighlights /\ ~viewport.isNull /\ viewport.rotation = 0) =>
        /\ \A k \in 1..Len(Drawn) : \A r \in 1..Len(Drawn[k].boxes) :
              LET h == OnPage(highlights, currentPage)[k]
                  run == RunOfRect(h, r)
                  box == Drawn[k].boxes[r]
                  H == pdfDocument.pages[currentPage].height
                  s == viewport.scale
              IN  /\ box.left = run.transform[5] * s
                  /\ box.top = (H - run.transform[6] - run.height) * s
                  /\ box.width = run.width * s
                  /\ box.height = run.height * s
        /\ (pdfDocument = ExampleDocument /\ currentPage = 1 /\ viewport.scale = 1) =>
              /\ Len(Drawn) = 1
              /\ Len(Drawn[1].boxes) = 1
              /\ Near(Drawn[1].boxes[1].left, 50)
              /\ Near(Drawn[1].boxes[1].top, 80)

\* C7: at rotation 0 the span of a run is placed with
\* fontSizePx = sqrt(skewX^2 + scaleY^2) * scale, leftPx = translateX * scale,
\* topPx = (pageHeight - translateY) * scale - fontSizePx.
CexC7_TextSpanPlacement ==
    (~viewport.isNull /\ viewport.rotation = 0) =>
        /\ Len(textLayer) = Len(pdfDocument.pages[currentPage].items)
        /\ \A k \in 1..Len(textLayer) :
              LET run == pdfDocument.pages[currentPage].items[k]
                  H == pdfDocument.pages[currentPage].height
                  s == viewport.scale
                  fontSizePx ==
                      Sqrt(run.transform[3] * run.transform[3]
                           + run.transform[4] * run.transform[4]) * s
              IN  /\ textLayer[k].fontSize = fontSizePx
                  /\ textLayer[k].left = run.transform[5] * s
                  /\ textLayer[k].top = (H - run.transform[6]) * s - fontSizePx

ScaledBox(box, factor) ==
    [left |-> box.left * factor, top |-> box.top * factor,
     width |-> box.width * factor, height |-> box.height * factor]

ScaledDrawn(drawn, factor) ==
    [k \in 1..Len(drawn) |->
        [id |-> drawn[k].id,
         boxes |-> [r \in 1..Len(drawn[k].boxes) |-> ScaledBox(drawn[k].boxes[r], factor)]]]

ScaledSpans(spans, factor) ==
    [k \in 1..Len(spans) |->
        [text |-> spans[k].text,
         fontSize |-> spans[k].fontSize * factor,
         left |-> spans[k].left * factor,
         top |-> spans[k].top * factor,
         width |-> spans[k].width * factor]]

DoublesScale ==
    /\ ~viewport.isNull
    /\ currentScale' = 2 * currentScale
    /\ currentRotation' = currentRotation
    /\ currentPage' = currentPage
    /\ highlights' = highlights

\* C8: with run, page and rotation fixed, doubling the scale doubles left,
\* top, font size, width and height of the highlight boxes drawn and of the
\* text-layer spans.
CexC8_ScaleLinear ==
    [][DoublesScale =>
          /\ BuiltInHighlights => Drawn' = ScaledDrawn(Drawn, 2)
          /\ textLayer' = ScaledSpans(textLayer, 2)]_vars

(***************************************************************************)
(* The example application (App): the viewer state it keeps, its handlers  *)
(* and its search.  Every handler that awaits leaves a call in pending,    *)
(* which completes in a later step with the values it captured.  The file  *)
(* is the initial local path, so the search goes to the API when the       *)
(* health check succeeded and to the built-in search otherwise.  The page  *)
(* component follows the props with a complete render.                     *)
(***************************************************************************)
MaxRenderKey == 2
MaxPending == 2

NoInfo == [width |-> 0, height |-> 0, scale |-> 0, rotation |-> 0]

ViewportOps == {"load", "page", "scale", "rotation"}

ViewportCalls == {call \in pending : call.op \in ViewportOps}

\* a handler suspended at await getPage, with the values its closure holds;
\* the document answers getPage in the order of the requests
ViewportCall(op, pageNumber, scale, rotation) ==
    [op |-> op, page |-> pageNumber, scale |-> scale, rotation |-> rotation,
     api |-> FALSE, info |-> NoInfo, order |-> Cardinality(ViewportCalls)]

SearchesInFlight == {call \in pending : call.op \in {"search", "fallback"}}

\* two calls of createHighlightFromText are two calls, also with equal
\* arguments: each carries a number no other search in flight carries
FreshCall == CHOOSE n \in 0..MaxPending : \A call \in SearchesInFlight : call.order # n

\* createHighlightFromText suspended at its await, with the page and the
\* viewport information it passed to the search
SearchCall(op, pageNumber, api, info, n) ==
    [op |-> op, page |-> pageNumber, scale |-> 0, rotation |-> 0,
     api |-> api, info |-> info, order |-> n]

AfterViewportCall(call) ==
    {IF other.op \in ViewportOps THEN [other EXCEPT !.order = @ - 1] ELSE other :
        other \in pending \ {call}}

InitApp ==
    /\ pdfDocument \in {ExampleDocument,
                        Document(<<ProjectPage(10, -12, 100, 0, 14), OtherPage>>)}
    /\ searchText = World
    /\ ret = NoReturn
    /\ highlightComponent \in Components
    /\ pageComponent \in Components
    /\ InitViewer

CanStart == highlightRenderKey < MaxRenderKey /\ Cardinality(pending) < MaxPending

setHighlightsAppend(previous, newHighlights) == previous \o newHighlights
\* setHighlights(newHighlights): the state is the new array
setHighlights(previous, newHighlights) == newHighlights

\* handleDocumentLoad: setPdfDocument, then the initial viewport
handleDocumentLoad ==
    /\ Cardinality(pending) < MaxPending
    /\ appDocument' = TRUE
    /\ pending' = pending \cup
           {ViewportCall("load", currentPage, currentScale, currentRotation)}
    /\ RenderPage(currentPage, currentScale, currentRotation)
    /\ UNCHANGED <<searchVars, buildVars, pageVars, loadVars, workerVars, viewerVars, currentPage, currentScale, currentRotation,
                   highlights, currentViewport, highlightRenderKey, apiAvailable>>

\* PDFViewer handlePageChange calling App handlePageChange
handlePageChange(page) ==
    /\ appDocument /\ CanStart
    /\ page >= 1 /\ page <= NumPages(pdfDocument) /\ page # currentPage
    /\ currentPage' = page
    /\ pending' = pending \cup {ViewportCall("page", page, currentScale, currentRotation)}
    /\ RenderPage(page, currentScale, currentRotation)
    /\ UNCHANGED <<searchVars, buildVars, pageVars, loadVars, workerVars, viewerVars, currentScale, currentRotation, highlights,
                   appDocument, currentViewport, highlightRenderKey, apiAvailable>>

\* PDFViewer handleScaleChange calling App handleScaleChange
handleScaleChange(scale) ==
    /\ CanStart
    /\ scale # currentScale
    /\ currentScale' = scale
    /\ IF appDocument
       THEN /\ pending' = pending \cup
                   {ViewportCall("scale", currentPage, scale, currentRotation)}
            /\ RenderPage(currentPage, scale, currentRotation)
       ELSE UNCHANGED <<pending, viewport, textLayer>>
    /\ UNCHANGED <<searchVars, buildVars, pageVars, loadVars, workerVars, viewerVars, currentPage, currentRotation, highlights,
                   appDocument, currentViewport, highlightRenderKey, apiAvailable>>

\* PDFViewer handleRotate calling App handleRotationChange
handleRotationChange ==
    LET newRotation == (currentRotation + 90) % 360
    IN  /\ CanStart
        /\ currentRotation' = newRotation
        /\ IF appDocument
           THEN /\ pending' = pending \cup
                       {ViewportCall("rotation", currentPage, currentScale, newRotation)}
                /\ RenderPage(currentPage, currentScale, newRotation)
           ELSE UNCHANGED <<pending, viewport, textLayer>>
        /\ UNCHANGED <<searchVars, buildVars, pageVars, loadVars, workerVars, viewerVars, currentPage, currentScale, highlights,
                       appDocument, currentViewport, highlightRenderKey, apiAvailable>>

\* the continuation of a handler after await getPage: setCurrentViewport and,
\* except after the document load, the new render key
ViewportDone(call) ==
    /\ call \in ViewportCalls
    /\ call.order = 0
    /\ currentViewport' =
           getViewport(pdfDocument.pages[call.page], call.scale, call.rotation)
    /\ highlightRenderKey' = IF call.op = "load" THEN highlightRenderKey
                             ELSE highlightRenderKey + 1
    /\ pending' = AfterViewportCall(call)
    /\ UNCHANGED <<searchVars, buildVars, pageVars, loadVars, workerVars, viewerVars, viewVars, appDocument, apiAvailable>>

\* checkAPIHealth
checkAPIHealth(isHealthy) ==
    /\ apiAvailable # isHealthy
    /\ apiAvailable' = isHealthy
    /\ UNCHANGED <<searchVars, buildVars, pageVars, loadVars, workerVars, viewerVars, viewVars, appDocument, currentViewport,
                   highlightRenderKey, pending>>

\* createHighlightFromText up to its first await
createHighlightFromText ==
    /\ appDocument /\ ~IsBlank(searchText)
    /\ ~currentViewport.isNull
    /\ CanStart
    /\ pending' = pending \cup
           {SearchCall("search", currentPage, apiAvailable,
                       getViewportInfo(currentViewport), FreshCall)}
    /\ UNCHANGED <<searchVars, buildVars, pageVars, loadVars, workerVars, viewerVars, viewVars, appDocument, currentViewport,
                   highlightRenderKey, apiAvailable>>

\* the search returned: setHighlights(newHighlights) and the new render key
SearchDone(call) ==
    /\ call \in pending
    /\ call.op = "search"
    /\ IF call.api
       THEN \E matches \in ApiMatches(call.page) :
               highlights' = setHighlights(highlights,
                                 convertToReactHighlights(matches, call.info))
       ELSE highlights' = setHighlights(highlights,
                              createHighlightsForText(pdfDocument, searchText,
                                                      DefaultColor, DefaultOpacity))
    /\ highlightRenderKey' = highlightRenderKey + 1
    /\ pending' = pending \ {call}
    /\ UNCHANGED <<searchVars, buildVars, pageVars, loadVars, workerVars, viewerVars, currentPage, currentScale, currentRotation,
                   viewport, textLayer, appDocument, currentViewport, apiAvailable>>

\* the API call threw: the catch block starts the built-in search
SearchFailed(call) ==
    /\ call \in pending
    /\ call.op = "search" /\ call.api
    /\ pending' = (pending \ {call}) \cup
                      {SearchCall("fallback", call.page, FALSE, call.info, call.order)}
    /\ UNCHANGED <<searchVars, buildVars, pageVars, loadVars, workerVars, viewerVars, viewVars, appDocument, currentViewport,
                   highlightRenderKey, apiAvailable>>

\* the built-in search of the catch block returned: setHighlights
FallbackDone(call) ==
    /\ call \in pending
    /\ call.op = "fallback"
    /\ highlights' = setHighlights(highlights,
                           createHighlightsForText(pdfDocument, searchText,
                                                   DefaultColor, DefaultOpacity))
    /\ pending' = pending \ {call}
    /\ UNCHANGED <<searchVars, buildVars, pageVars, loadVars, workerVars, viewerVars, currentPage, currentScale, currentRotation,
                   viewport, textLayer, appDocument, currentViewport,
                   highlightRenderKey, apiAvailable>>

\* clearHighlights
clearHighlights ==
    /\ highlights # <<>>
    /\ highlights' = setHighlights(highlights, <<>>)
    /\ UNCHANGED <<searchVars, buildVars, pageVars, loadVars, workerVars, viewerVars, currentPage, currentScale, currentRotation,
                   viewport, textLayer, appVars>>

NextApp ==
    \/ handleDocumentLoad
    \/ \E page \in 1..2 : handlePageChange(page)
    \/ \E scale \in {1, 2} : handleScaleChange(scale)
    \/ handleRotationChange
    \/ \E call \in pending : ViewportDone(call)
    \/ \E isHealthy \in BOOLEAN : checkAPIHealth(isHealthy)
    \/ createHighlightFromText
    \/ \E call \in pending : SearchDone(call)
    \/ \E call \in pending : SearchFailed(call)
    \/ \E call \in pending : FallbackDone(call)
    \/ clearHighlights

SpecApp == InitApp /\ [][NextApp]_vars

ApiHighlights == highlights # <<>> /\ \A i \in 1..Len(highlights) : highlights[i].id.kind = "api-highlight"

\* C9: when the viewport changed while an API search was in flight, the
\* returning search leaves the highlights as they are (its result is
\* discarded) unless the result is what the API gives for the viewport of now.
CexC9_StaleResultDiscarded ==
    [][\A call \in pending :
          (/\ call.op = "search" /\ call.api
           /\ call \notin pending'
           /\ call.info # getViewportInfo(currentViewport))
          => \/ highlights' = highlights
             \/ \E matches \in ApiMatches(call.page) :
                   highlights' = convertToReactHighlights(
                                     matches, getViewportInfo(currentViewport))]_vars

ComputedFor(highlightList, pdfViewport) ==
    \E page \in 1..NumPages(pdfDocument) :
       \E matches \in ApiMatches(page) :
          highlightList = convertToReactHighlights(matches, getViewportInfo(pdfViewport))

\* C10: when a change of scale, rotation or page settles (its handler sets
\* the new viewport and nothing is left in flight), highlights of the API
\* that were computed for the viewport before the change are replaced by
\* the ones computed for the new viewport.
CexC10_RectsRecomputed ==
    [][(/\ pending # {} /\ pending' = {}
        /\ ~currentViewport.isNull
        /\ getViewportInfo(currentViewport') # getViewportInfo(currentViewport)
        /\ ApiHighlights
        /\ ComputedFor(highlights, currentViewport))
       => ComputedFor(highlights', currentViewport')]_vars

\* what a suspended search can hand to setHighlights
ResultsOf(call) ==
    IF call.api
    THEN {convertToReactHighlights(matches, call.info) : matches \in ApiMatches(call.page)}
    ELSE {createHighlightsForText(pdfDocument, searchText, DefaultColor, DefaultOpacity)}

\* the viewports the viewer of the application can show
AppViewports ==
    {getViewport(pdfDocument.pages[page], scale, rotation) :
        page \in 1..NumPages(pdfDocument), scale \in {1, 2}, rotation \in {0, 90, 180, 270}}

\* the complete results a search can have
WholeResults ==
    {createHighlightsForText(pdfDocument, searchText, DefaultColor, DefaultOpacity)}
    \cup UNION {{convertToReactHighlights(matches, getViewportInfo(pdfViewport)) :
                    matches \in ApiMatches(page)} :
                page \in 1..NumPages(pdfDocument), pdfViewport \in AppViewports}

\* C11: the highlight collection is always empty or the complete result of
\* one search, never a mixture of two; a search that hands over its result
\* leaves exactly that result, and a change to the empty collection leaves
\* nothing of an earlier search.
ThmC11_ReplacedAsAWhole ==
    /\ [](highlights = <<>> \/ highlights \in WholeResults)
    /\ [][\A call \in SearchesInFlight :
             (call \notin pending' /\ SearchesInFlight' = SearchesInFlight \ {call})
                => highlights' \in ResultsOf(call)]_vars

\* two different searches are in flight while the result of an earlier
\* search, which neither of them can give, is the collection
WitC11_TwoSearchesInFlight ==
    /\ highlights # <<>>
    /\ Cardinality(SearchesInFlight) = 2
    /\ \A call \in SearchesInFlight : highlights \notin ResultsOf(call)

\* the positions of the input list that hold a highlight of the page
PositionsOnPage == {n \in 1..Len(highlights) : highlights[n].pageNumber = currentPage}

\* the position in the input list of the k-th highlight of the page
PositionOf(k) ==
    CHOOSE n \in PositionsOnPage : Cardinality({m \in PositionsOnPage : m <= n}) = k

\* C12: the boxes drawn on the page are those of exactly the highlights of
\* this page, in the order of the input list, one box per rect in rect order.
ThmC12_PageFilter ==
    (Len(highlights) > 0 /\ ~viewport.isNull) =>
        /\ Len(Drawn) = Cardinality(PositionsOnPage)
        /\ \A k \in 1..Len(Drawn) :
              LET h == highlights[PositionOf(k)]
              IN  /\ Drawn[k].id = h.id
                  /\ Len(Drawn[k].boxes) = Len(h.rects)
                  /\ \A r \in 1..Len(h.rects) :
                        Drawn[k].boxes[r] =
                            IF highlightComponent = "lib"
                            THEN renderHighlight(h.rects[r], viewport)
                            ELSE renderHighlightSimplified(h.rects[r], viewport)

\* a highlight of another page stands in the list between two highlights of
\* the page on display
WitC12_MergedOutOfPageOrder ==
    /\ ~viewport.isNull
    /\ Len(Drawn) >= 2
    /\ \E a, b, c \in 1..Len(highlights) :
          /\ a < b /\ b < c
          /\ highlights[a].pageNumber = currentPage
          /\ highlights[b].pageNumber # currentPage
          /\ highlights[c].pageNumber = currentPage
          /\ highlights[a].id # highlights[c].id

(***************************************************************************)
(* The PDFViewer component: the props its parent passes, the memo          *)
(* comparison that decides whether it renders with them, its own page,     *)
(* scale and rotation state, and the effects that sync the state with the  *)
(* props.  A render of the viewer renders its page to the end.             *)
(***************************************************************************)
\* propsComparison of React.memo: TRUE keeps the last render; file, view
\* mode, tool and the flags do not change here
propsComparison(prevProps, nextProps) ==
    /\ prevProps.page = nextProps.page
    /\ prevProps.scale = nextProps.scale
    /\ prevProps.rotation = nextProps.rotation
    /\ prevProps.enableKeyboardShortcuts = nextProps.enableKeyboardShortcuts

\* the highlight arrays a parent passes
ParentHighlights ==
    {<<>>, createHighlightsForText(pdfDocument, searchText, DefaultColor, DefaultOpacity)}
    \cup {convertToReactHighlights(matches,
              getViewportInfo(getViewport(pdfDocument.pages[1], 1, 0))) :
          matches \in ApiMatches(1)}

ParentProps ==
    [page : {1, 2}, scale : {1, 2}, rotation : {0}, highlights : ParentHighlights,
     enableKeyboardShortcuts : {TRUE}]

InitViewerComponent ==
    /\ pdfDocument = ExampleDocument
    /\ searchText = World
    /\ ret = NoReturn
    /\ highlightComponent = "lib"
    /\ pageComponent = "lib"
    /\ InitViewer

\* a render of PDFViewerComponent: its pages get the state and the highlights prop
ViewerRender(viewerProps, page, scale, rotation) ==
    /\ props' = viewerProps
    /\ highlights' = viewerProps.highlights
    /\ IF viewport.isNull
       THEN UNCHANGED <<viewport, textLayer>>
       ELSE RenderPage(page, scale, rotation)

\* loadPDF has set pdf and numPages
loadPDF ==
    /\ viewport.isNull
    /\ RenderPage(currentPage, currentScale, currentRotation)
    /\ UNCHANGED <<searchVars, buildVars, pageVars, loadVars, workerVars, viewerVars, appVars, currentPage, currentScale,
                   currentRotation, highlights>>

\* the parent renders <PDFViewer ... /> with nextProps
ParentRender(nextProps) ==
    /\ nextProps # passedProps
    /\ passedProps' = nextProps
    /\ IF propsComparison(props, nextProps)
       THEN UNCHANGED <<props, highlights, viewport, textLayer>>
       ELSE ViewerRender(nextProps, currentPage, currentScale, currentRotation)
    /\ UNCHANGED <<searchVars, buildVars, pageVars, loadVars, workerVars, appVars, presentationMode, effectDeps, currentPage, currentScale,
                   currentRotation>>

\* handlePageChange of PDFViewer (next page, previous page, go to page)
ViewerPageChange(newPage) ==
    /\ ~viewport.isNull
    /\ newPage >= 1 /\ newPage <= NumPages(pdfDocument) /\ newPage # currentPage
    /\ currentPage' = newPage
    /\ ViewerRender(props, newPage, currentScale, currentRotation)
    /\ UNCHANGED <<searchVars, buildVars, pageVars, loadVars, workerVars, appVars, presentationMode, passedProps, effectDeps, currentScale,
                   currentRotation>>

\* handleScaleChange of PDFViewer
ViewerScaleChange(newScale) ==
    /\ newScale # currentScale
    /\ currentScale' = newScale
    /\ ViewerRender(props, currentPage, newScale, currentRotation)
    /\ UNCHANGED <<searchVars, buildVars, pageVars, loadVars, workerVars, appVars, presentationMode, passedProps, effectDeps, currentPage,
                   currentRotation>>

\* handleRotate of PDFViewer
ViewerRotate ==
    LET newRotation == (currentRotation + 90) % 360
    IN  /\ currentRotation' = newRotation
        /\ ViewerRender(props, currentPage, currentScale, newRotation)
        /\ UNCHANGED <<searchVars, buildVars, pageVars, loadVars, workerVars, appVars, presentationMode, passedProps, effectDeps, currentPage,
                       currentScale>>

\* useEffect(() => { if (page !== currentPage) setCurrentPage(page) }, [page, currentPage])
SyncPage ==
    LET deps == SyncDeps(props, currentPage, currentScale, currentRotation)
    IN  /\ effectDeps.page # deps.page
        /\ effectDeps' = [effectDeps EXCEPT !.page = deps.page]
        /\ currentPage' = props.page
        /\ ViewerRender(props, props.page, currentScale, currentRotation)
        /\ UNCHANGED <<searchVars, buildVars, pageVars, loadVars, workerVars, appVars, presentationMode, passedProps, currentScale,
                       currentRotation>>

\* the same effect for [scale, currentScale]
SyncScale ==
    LET deps == SyncDeps(props, currentPage, currentScale, currentRotation)
    IN  /\ effectDeps.scale # deps.scale
        /\ effectDeps' = [effectDeps EXCEPT !.scale = deps.scale]
        /\ currentScale' = props.scale
        /\ ViewerRender(props, currentPage, props.scale, currentRotation)
        /\ UNCHANGED <<searchVars, buildVars, pageVars, loadVars, workerVars, appVars, presentationMode, passedProps, currentPage,
                       currentRotation>>

\* the same effect for [rotation, currentRotation]
SyncRotation ==
    LET deps == SyncDeps(props, currentPage, currentScale, currentRotation)
    IN  /\ effectDeps.rotation # deps.rotation
        /\ effectDeps' = [effectDeps EXCEPT !.rotation = deps.rotation]
        /\ currentRotation' = props.rotation
        /\ ViewerRender(props, currentPage, currentScale, props.rotation)
        /\ UNCHANGED <<searchVars, buildVars, pageVars, loadVars, workerVars, appVars, presentationMode, passedProps, currentPage,
                       currentScale>>

NextViewer ==
    \/ loadPDF
    \/ \E nextProps \in ParentProps : ParentRender(nextProps)
    \/ \E newPage \in 1..2 : ViewerPageChange(newPage)
    \/ \E newScale \in {1, 2} : ViewerScaleChange(newScale)
    \/ ViewerRotate
    \/ SyncPage
    \/ SyncScale
    \/ SyncRotation

SpecViewer == InitViewerComponent /\ [][NextViewer]_vars

\* C13: when the parent passes a new highlights array and every other prop
\* is as before, the pages of the viewer get the new highlights.
CexC13_HighlightsPropDisplayed ==
    [][(/\ passedProps'.highlights # passedProps.highlights
        /\ passedProps'.page = passedProps.page
        /\ passedProps'.scale = passedProps.scale
        /\ passedProps'.rotation = passedProps.rotation)
       => highlights' = passedProps'.highlights]_vars

\* C14: when the page state has changed by a navigation while the page prop
\* is the one the sync effect last ran with, the run of the effect leaves
\* the viewer on the page of the navigation.
CexC14_PagePropIsInitial ==
    [][(/\ effectDeps'.page # effectDeps.page
        /\ effectDeps.page[1] = props.page
        /\ passedProps.page = props.page
        /\ effectDeps.page[2] # currentPage)
       => currentPage' = currentPage]_vars

(***************************************************************************)
(* Calls of the exported functions of worker.ts after the import.          *)
(***************************************************************************)
WorkerSrcArguments ==
    {NoString, String(<<>>), String(<<" ">>), String(<<"/pdf.worker.min.js">>),
     String(<<"custom">>), String(<<"unpkg">>)}

WorkerNow == WorkerState(isWorkerConfigured, workerRetryCount, GlobalWorkerOptions)

SetWorker(state) ==
    /\ isWorkerConfigured' = state.isWorkerConfigured
    /\ workerRetryCount' = state.workerRetryCount
    /\ GlobalWorkerOptions' = state.workerSrc

InitWorkerCalls ==
    /\ pdfDocument = NullDocument
    /\ searchText = <<>>
    /\ ret = NoReturn
    /\ highlightComponent = "lib"
    /\ pageComponent = "lib"
    /\ InitViewer

CallConfigurePDFWorker(workerSrc, force) ==
    /\ SetWorker(configurePDFWorker(WorkerNow, workerSrc, force))
    /\ ret' = [fn |-> "configurePDFWorker", page |-> 0, value |-> <<workerSrc, force>>]
    /\ UNCHANGED <<pdfDocument, searchText, buildVars, pageVars, loadVars, viewVars, appVars, viewerVars>>

CallResetWorkerConfiguration ==
    /\ SetWorker(resetWorkerConfiguration(WorkerNow))
    /\ ret' = [fn |-> "resetWorkerConfiguration", page |-> 0, value |-> <<>>]
    /\ UNCHANGED <<pdfDocument, searchText, buildVars, pageVars, loadVars, viewVars, appVars, viewerVars>>

CallRetryWorkerConfiguration ==
    /\ SetWorker(retryWorkerConfiguration(WorkerNow))
    /\ ret' = [fn |-> "retryWorkerConfiguration", page |-> 0,
               value |-> <<workerRetryCount < MAX_WORKER_RETRIES>>]
    /\ UNCHANGED <<pdfDocument, searchText, buildVars, pageVars, loadVars, viewVars, appVars, viewerVars>>

CallGetWorkerSrc ==
    /\ ret' = [fn |-> "getWorkerSrc", page |-> 0, value |-> <<getWorkerSrc(WorkerNow)>>]
    /\ UNCHANGED <<pdfDocument, searchText, buildVars, pageVars, loadVars, viewVars, appVars, viewerVars,
                   workerVars>>

NextWorker ==
    \/ \E workerSrc \in WorkerSrcArguments, force \in BOOLEAN :
          CallConfigurePDFWorker(workerSrc, force)
    \/ CallResetWorkerConfiguration
    \/ CallRetryWorkerConfiguration
    \/ CallGetWorkerSrc

SpecWorker == InitWorkerCalls /\ [][NextWorker]_vars

\* C15: right after configurePDFWorker(workerSrc) with a non-blank workerSrc,
\* getWorkerSrc() is that workerSrc.
CexC15_ConfigureSetsWorkerSrc ==
    (/\ ret.fn = "configurePDFWorker"
     /\ ret.value[1].isSet
     /\ ~IsBlank(ret.value[1].str))
    => getWorkerSrc(WorkerNow) = ret.value[1]

(***************************************************************************)
(* Malformed runs: the search and the text layer on pages that hold a run  *)
(* with a short or missing transform next to well-formed runs.             *)
(***************************************************************************)
\* a run 'world' whose transform is not [a, b, c, d, e, f]
ShortRun(transform, hasTransform) ==
    [str |-> World, isString |-> TRUE, transform |-> transform,
     hasTransform |-> hasTransform, width |-> 30, height |-> 12]

ShortRuns ==
    {ShortRun(<<>>, TRUE), ShortRun(<<12, 0, 0, 12>>, TRUE),
     ShortRun(<<12, 0, 0, 12, 50>>, TRUE), ShortRun(<<>>, FALSE)}

MalformedDocuments ==
    {Document(<<[width |-> 612, height |-> 792,
                 items |-> <<TextItem(HelloWorld, <<12, 0, 0, 12, 50, 700>>, 66, 12), run>>],
                OtherPage>>) : run \in ShortRuns}

InitMalformed ==
    /\ pdfDocument \in MalformedDocuments
    /\ searchText = World
    /\ ret = NoReturn
    /\ highlightComponent \in Components
    /\ pageComponent \in Components
    /\ InitViewer

NextMalformed ==
    \/ CallCreateHighlights
    \/ ProjMount
    \/ \E scale \in Scales : ProjSetScale(scale)
    \/ \E pageNumber \in 1..NumPages(pdfDocument) : ProjSetPage(pageNumber)

SpecMalformed == InitMalformed /\ [][NextMalformed]_vars

WellFormed(item) == item.hasTransform /\ Len(item.transform) >= 6

\* the pages on which a well-formed run holds an occurrence of the search text
PagesWithWellFormedMatch ==
    {p \in 1..NumPages(pdfDocument) :
        \E k \in 1..Len(pdfDocument.pages[p].items) :
           LET item == pdfDocument.pages[p].items[k]
           IN  /\ WellFormed(item) /\ item.isString
               /\ \E at \in 0..Len(item.str) : OccursAt(item.str, searchText, at)}

\* C16: a run with a transform of fewer than 6 components is skipped: the
\* text layer holds the spans of exactly the well-formed runs, the search
\* returns no rect made from a short transform, and it still returns the
\* matches in well-formed runs of every page.
CexC16_ShortTransformSkipped ==
    /\ ~viewport.isNull =>
          Len(textLayer) = Cardinality({k \in 1..Len(pdfDocument.pages[currentPage].items) :
                                           WellFormed(pdfDocument.pages[currentPage].items[k])})
    /\ ret.fn = "createHighlightsForText" =>
          /\ \A n \in 1..Len(ret.value) : \A r \in 1..Len(ret.value[n].rects) :
                LET rect == ret.value[n].rects[r]
                IN  /\ IsNumber(rect.left) /\ IsNumber(rect.top)
                    /\ IsNumber(rect.width) /\ IsNumber(rect.height)
          /\ \A p \in PagesWithWellFormedMatch :
                \E n \in 1..Len(ret.value) : ret.value[n].pageNumber = p

(***************************************************************************)
(* The horizontal scale correction of renderTextLayer (PDFPage.tsx): the   *)
(* 2d context of a fresh canvas measures the text; the environment decides *)
(* whether there is a context and what width it reports.  A ratio is kept  *)
(* as the pair <<numerator, denominator>>.                                 *)
(***************************************************************************)
\* Math.abs(scaleFactorX - 1) > 0.01, in hundredths
ScaleTolerance == 1

Surfaces ==
    {[available |-> FALSE, measuredWidth |-> 0]}
    \cup {[available |-> TRUE, measuredWidth |-> w] : w \in {-1, 0, 30, 60, 66, 131, 132}}

\* ctx.measureText(textItem.str).width
measureText(surface, str) == surface.measuredWidth

\* ctx.font = ... on the null context throws
SpanThrows(textItem, surface) == textItem.width > 0 /\ ~surface.available

\* the scaleX(...) transform of the span, <<1, 1>> when none is set
ScaleFactorX(textItem, pdfViewport, surface) ==
    LET textWidth == textItem.width * pdfViewport.scale
        measuredWidth == measureText(surface, textItem.str)
    IN  IF /\ textItem.width > 0
           /\ measuredWidth > 0
           /\ Abs(textWidth - measuredWidth) * 100 > ScaleTolerance * measuredWidth
        THEN <<textWidth, measuredWidth>>
        ELSE <<1, 1>>

\* the span with its transform
MeasuredSpan(textItem, pdfViewport, surface) ==
    LET span == TextSpan(textItem, pdfViewport)
    IN  [field \in DOMAIN span \cup {"scaleX"} |->
            IF field = "scaleX" THEN ScaleFactorX(textItem, pdfViewport, surface)
            ELSE span[field]]

\* textContent.items.forEach appending spans until an item throws
RECURSIVE AppendSpans(_, _, _)
AppendSpans(spanItems, pdfViewport, surface) ==
    IF spanItems = <<>> \/ SpanThrows(Head(spanItems), surface) THEN <<>>
    ELSE <<MeasuredSpan(Head(spanItems), pdfViewport, surface)>>
         \o AppendSpans(Tail(spanItems), pdfViewport, surface)

\* a page of three runs, the first without a width
MeasurePage(width) ==
    [width |-> 612, height |-> 792,
     items |-> <<TextItem(World, <<12, 0, 0, 12, 50, 720>>, 0, 12),
                 TextItem(HelloWorld, <<12, 0, 0, 12, 50, 700>>, width, 12),
                 TextItem(World, <<12, 0, 0, 12, 50, 680>>, 30, 12)>>]

InitMeasure ==
    /\ pdfDocument \in {Document(<<MeasurePage(width), OtherPage>>) : width \in {66, 0}}
    /\ searchText = World
    /\ ret = NoReturn
    /\ highlightComponent \in Components
    /\ pageComponent = "lib"
    /\ InitViewer

\* renderPage with the measuring surface the environment offers: viewport,
\* then renderTextLayer; its catch block reports through onError
RenderPageMeasured(pageNumber, scale, surface) ==
    LET pdfPage == pdfDocument.pages[pageNumber]
        pdfViewport == getViewport(pdfPage, scale, currentRotation)
        spanItems == SpanItems(pageComponent, pdfPage.items)
    IN  /\ currentPage' = pageNumber
        /\ currentScale' = scale
        /\ viewport' = pdfViewport
        /\ textLayer' = AppendSpans(spanItems, pdfViewport, surface)
        /\ ret' = [fn |-> IF \E k \in 1..Len(spanItems) : SpanThrows(spanItems[k], surface)
                          THEN "onError" ELSE "renderTextLayer",
                   page |-> pageNumber, value |-> <<surface>>]
        /\ UNCHANGED <<pdfDocument, searchText, buildVars, pageVars, loadVars, workerVars, viewerVars, appVars,
                       currentRotation, highlights>>

NextMeasure ==
    \E pageNumber \in 1..NumPages(pdfDocument), scale \in Scales, surface \in Surfaces :
       RenderPageMeasured(pageNumber, scale, surface)

SpecMeasure == InitMeasure /\ [][NextMeasure]_vars

\* C17: whatever the measuring surface does, no error is reported, every
\* run of the page has its span, and a span carries the factor
\* run.width * scale / measuredWidth only when there is a measured width
\* above zero and the factor is off 1 by more than the tolerance; otherwise
\* it carries no horizontal scaling.
CexC17_ScaleCorrectionFallsBack ==
    ret.fn \in {"renderTextLayer", "onError"} =>
        LET spanItems == SpanItems(pageComponent, pdfDocument.pages[currentPage].items)
            surface == ret.value[1]
        IN  /\ ret.fn # "onError"
            /\ Len(textLayer) = Len(spanItems)
            /\ \A k \in 1..Len(textLayer) :
                  LET textWidth == spanItems[k].width * viewport.scale
                      applies == /\ surface.available
                                 /\ surface.measuredWidth > 0
                                 /\ spanItems[k].width > 0
                                 /\ (textWidth - surface.measuredWidth) * 100
                                        \notin (-surface.measuredWidth)..surface.measuredWidth
                  IN  textLayer[k].scaleX = IF applies
                                            THEN <<textWidth, surface.measuredWidth>>
                                            ELSE <<1, 1>>

(***************************************************************************)
(* The search functions on pages that hold items without text: an item of  *)
(* marked content has no str (and no transform), another has the empty     *)
(* string.                                                                 *)
(***************************************************************************)
\* an item whose str is missing or not a string
NoTextItem ==
    [str |-> <<>>, isString |-> FALSE, transform |-> <<>>,
     hasTransform |-> FALSE, width |-> 0, height |-> 0]

ItemKinds == {"a", ".a", "empty", "missing"}

ItemOfKind(kind, k) ==
    LET transform == <<12, 0, 0, 12, 50 * k, 700>>
    IN  CASE kind = "a" -> TextItem(<<"a">>, transform, 6, 12)
          [] kind = ".a" -> TextItem(<<".", "a">>, transform, 12, 12)
          [] kind = "empty" -> TextItem(<<>>, transform, 0, 12)
          [] OTHER -> NoTextItem

ItemDocuments ==
    {Document(<<[width |-> 612, height |-> 792,
                 items |-> [k \in 1..Len(kinds) |-> ItemOfKind(kinds[k], k)]]>>) :
        kinds \in SeqsUpTo(ItemKinds, MaxRuns)}

InitItems ==
    /\ pdfDocument \in ItemDocuments
    /\ searchText \in {<<"a">>, <<"a", "a">>, <<"a", ".">>}
    /\ ret = NoReturn
    /\ highlightComponent = "lib"
    /\ pageComponent = "lib"
    /\ InitViewer

NextItems ==
    \/ CallCreateHighlights
    \/ \E pageNumber \in 1..NumPages(pdfDocument) : CallSearchTextInPage(pageNumber)

SpecItems == InitItems /\ [][NextItems]_vars

\* the same document with the items without text removed
WithoutSkipped(doc) ==
    [doc EXCEPT !.pages = [p \in 1..Len(doc.pages) |->
        [doc.pages[p] EXCEPT !.items = SelectSeq(doc.pages[p].items, HasText)]]]

\* C18: items whose text is missing, empty or not a string take no offset
\* range of fullText, and either search returns what it returns on the same
\* document with those items removed (so it does not fail because of them).
ThmC18_SkippedItems ==
    /\ \A p \in 1..NumPages(pdfDocument) :
          LET items == pdfDocument.pages[p].items
              textItems == BuildTextItems(items, 0)
          IN  /\ textItems = BuildTextItems(SelectSeq(items, HasText), 0)
              /\ Len(JoinTexts(textItems)) = Len(PageFullText(items))
              /\ \A k \in 1..Len(textItems) :
                    textItems[k].endIndex > textItems[k].startIndex
    /\ ret.fn = "createHighlightsForText" =>
          ret.value = createHighlightsForText(WithoutSkipped(pdfDocument), searchText,
                                              DefaultColor, DefaultOpacity)
    /\ ret.fn = "searchTextInPage" =>
          ret.value = searchTextInPage(WithoutSkipped(pdfDocument), ret.page, searchText)

\* a match that runs over an item without str and without transform
WitC18_MatchAcrossSkippedItem ==
    /\ ret.fn = "createHighlightsForText"
    /\ Len(pdfDocument.pages[1].items) = 3
    /\ HasText(pdfDocument.pages[1].items[1])
    /\ ~pdfDocument.pages[1].items[2].isString
    /\ HasText(pdfDocument.pages[1].items[3])
    /\ Len(ret.value) = 1
    /\ Len(ret.value[1].rects) = 2

\* a page search over a page that holds an empty string and a missing one
WitC18_PageSearchWithSkippedItems ==
    /\ ret.fn = "searchTextInPage"
    /\ \E k \in 1..Len(pdfDocument.pages[1].items) :
          ~pdfDocument.pages[1].items[k].isString
    /\ \E k \in 1..Len(pdfDocument.pages[1].items) :
          pdfDocument.pages[1].items[k].isString /\ pdfDocument.pages[1].items[k].str = <<>>
    /\ Len(ret.value) > 0

\* C19: a rotation from 0 to 90 degrees at the same scale, on a page with a
\* span in the text layer and a highlight box on the screen, changes the
\* box and the span, and leaves the document's runs and the highlights'
\* rects as they were.
CexC19_RotationChangesProjection ==
    [][(/\ currentRotation = 0 /\ currentRotation' = 90
        /\ currentScale' = currentScale /\ currentPage' = currentPage
        /\ ~viewport.isNull
        /\ textLayer # <<>>
        /\ Drawn # <<>>)
       => /\ Drawn' # Drawn
          /\ textLayer' # textLayer
          /\ pdfDocument' = pdfDocument
          /\ highlights' = highlights]_vars

(***************************************************************************)
(* useKeyboardShortcuts: the keydown listener of the document, with the    *)
(* callbacks PDFViewer wires in.  The model records the callback that ran  *)
(* and whether the event's default was prevented; of the callbacks' own    *)
(* state it keeps presentationMode, which feeds back into the hook.        *)
(***************************************************************************)
Keys ==
    {"n", "N", "j", "p", "P", "k", " ", "+", "=", "-", "0", "f", "g", "o", "s",
     "F4", "Home", "End", "r", "R", "h", "ArrowLeft", "Enter", "x"}

KeyboardEvents ==
    [key : Keys, ctrlKey : BOOLEAN, metaKey : BOOLEAN, shiftKey : BOOLEAN,
     altKey : BOOLEAN]

\* event.target
Targets ==
    {[tagName |-> "DIV", isContentEditable |-> FALSE],
     [tagName |-> "DIV", isContentEditable |-> TRUE],
     [tagName |-> "INPUT", isContentEditable |-> FALSE],
     [tagName |-> "TEXTAREA", isContentEditable |-> FALSE]}

\* key.toLowerCase() on the keys above
toLowerCase(key) ==
    CASE key = "N" -> "n"
      [] key = "P" -> "p"
      [] key = "R" -> "r"
      [] key = "F4" -> "f4"
      [] key = "Home" -> "home"
      [] key = "End" -> "end"
      [] key = "ArrowLeft" -> "arrowleft"
      [] key = "Enter" -> "enter"
      [] OTHER -> key

modKeyCtrlOnly(event) == event.ctrlKey
modKey(event) == event.ctrlKey \/ event.metaKey

\* the outcome of one keydown: the callback invoked, and preventDefault
\* with stopPropagation
Invoke(handler) == [handler |-> handler, preventDefault |-> TRUE]
NotHandled == [handler |-> "none", preventDefault |-> FALSE]

handleKeyDown(enabled, event, target) ==
    IF ~enabled THEN NotHandled
    ELSE IF target.tagName = "INPUT" \/ target.tagName = "TEXTAREA"
            \/ target.isContentEditable
    THEN NotHandled
    ELSE LET key == event.key
             lower == toLowerCase(key)
             mod == modKey(event)
             shiftKey == event.shiftKey
             altKey == event.altKey
         IN  CASE lower \in {"n", "j"} ->
                    IF ~mod THEN Invoke("onNextPage") ELSE NotHandled
               [] lower \in {"p", "k"} ->
                    IF ~mod THEN Invoke("onPreviousPage")
                    ELSE IF mod /\ altKey /\ key = "p" THEN Invoke("onPresentationMode")
                    ELSE IF mod /\ key = "p" THEN Invoke("onPrint")
                    ELSE NotHandled
               [] lower = "home" -> Invoke("onFirstPage")
               [] lower = "end" -> Invoke("onLastPage")
               [] lower = "arrowleft" ->
                    IF ~mod THEN Invoke("onPreviousPage") ELSE NotHandled
               [] lower \in {" ", "enter"} ->
                    IF ~shiftKey THEN Invoke("onNextPage") ELSE Invoke("onPreviousPage")
               [] lower \in {"+", "="} ->
                    IF mod THEN Invoke("onZoomIn") ELSE NotHandled
               [] lower = "-" ->
                    IF mod THEN Invoke("onZoomOut") ELSE NotHandled
               [] lower = "0" ->
                    IF mod THEN Invoke("onActualSize") ELSE NotHandled
               [] lower = "r" ->
                    IF ~mod /\ ~shiftKey THEN Invoke("onRotateClockwise")
                    ELSE IF ~mod /\ shiftKey THEN Invoke("onRotateCounterClockwise")
                    ELSE NotHandled
               [] lower = "h" ->
                    IF ~mod THEN Invoke("onHandTool") ELSE NotHandled
               [] lower = "s" ->
                    IF ~mod THEN Invoke("onTextSelection") ELSE Invoke("onDownload")
               [] lower = "f" ->
                    IF mod THEN Invoke("onFind") ELSE NotHandled
               [] lower = "g" ->
                    IF mod /\ ~shiftKey THEN Invoke("onFindNext")
                    ELSE IF mod /\ shiftKey THEN Invoke("onFindPrevious")
                    ELSE NotHandled
               [] lower = "o" ->
                    IF mod THEN Invoke("onOpenFile") ELSE NotHandled
               [] lower = "f4" -> Invoke("onToggleSidebar")
               [] OTHER -> NotHandled

\* the first argument of the hook in PDFViewer
ShortcutsEnabled == props.enableKeyboardShortcuts /\ ~presentationMode

InitKeys == InitViewerComponent

\* a keydown event reaches the document
KeyDown(event, target) ==
    LET outcome == handleKeyDown(ShortcutsEnabled, event, target)
    IN  /\ ret' = [fn |-> "handleKeyDown", page |-> 0,
                   value |-> <<[event |-> event, target |-> target,
                                enabled |-> ShortcutsEnabled,
                                handler |-> outcome.handler,
                                preventDefault |-> outcome.preventDefault]>>]
        /\ presentationMode' = IF outcome.handler = "onPresentationMode"
                               THEN ~presentationMode ELSE presentationMode
        /\ UNCHANGED <<pdfDocument, searchText, buildVars, pageVars, loadVars, workerVars, appVars, viewVars,
                       passedProps, props, effectDeps>>

\* the parent renders the viewer with another enableKeyboardShortcuts
SetEnableKeyboardShortcuts(enable) ==
    LET nextProps == [passedProps EXCEPT !.enableKeyboardShortcuts = enable]
    IN  /\ enable # passedProps.enableKeyboardShortcuts
        /\ ~propsComparison(props, nextProps)
        /\ passedProps' = nextProps
        /\ props' = nextProps
        /\ UNCHANGED <<searchVars, buildVars, pageVars, loadVars, workerVars, appVars, viewVars, effectDeps,
                       presentationMode>>

NextKeys ==
    \/ \E event \in KeyboardEvents, target \in Targets : KeyDown(event, target)
    \/ \E enable \in BOOLEAN : SetEnableKeyboardShortcuts(enable)

SpecKeys == InitKeys /\ [][NextKeys]_vars

\* the last keydown
LastKey == ret.value[1]

PlainKey(event) ==
    ~event.ctrlKey /\ ~event.metaKey /\ ~event.shiftKey /\ ~event.altKey
ShiftKey(event) ==
    ~event.ctrlKey /\ ~event.metaKey /\ event.shiftKey /\ ~event.altKey
CtrlOrCmdKey(event) ==
    (event.ctrlKey \/ event.metaKey) /\ ~event.shiftKey /\ ~event.altKey

\* the table of the README: the callback of a key combination, "none" for a
\* combination the table does not list
TableHandler(event) ==
    CASE PlainKey(event) /\ event.key \in {"n", "j", " "} -> "onNextPage"
      [] PlainKey(event) /\ event.key \in {"p", "k"} -> "onPreviousPage"
      [] ShiftKey(event) /\ event.key = " " -> "onPreviousPage"
      [] CtrlOrCmdKey(event) /\ event.key = "+" -> "onZoomIn"
      [] CtrlOrCmdKey(event) /\ event.key = "-" -> "onZoomOut"
      [] CtrlOrCmdKey(event) /\ event.key = "0" -> "onActualSize"
      [] CtrlOrCmdKey(event) /\ event.key = "f" -> "onFind"
      [] CtrlOrCmdKey(event) /\ event.key = "g" -> "onFindNext"
      [] CtrlOrCmdKey(event) /\ event.key = "o" -> "onOpenFile"
      [] CtrlOrCmdKey(event) /\ event.key = "s" -> "onDownload"
      [] CtrlOrCmdKey(event) /\ event.key = "p" -> "onPrint"
      [] PlainKey(event) /\ event.key = "F4" -> "onToggleSidebar"
      [] PlainKey(event) /\ event.key = "Home" -> "onFirstPage"
      [] PlainKey(event) /\ event.key = "End" -> "onLastPage"
      [] PlainKey(event) /\ event.key = "r" -> "onRotateClockwise"
      [] ShiftKey(event) /\ event.key = "R" -> "onRotateCounterClockwise"
      [] OTHER -> "none"

IsInput(target) ==
    target.tagName \in {"INPUT", "TEXTAREA"} \/ target.isContentEditable

WitC20_TypingInTextarea ==
    /\ ret.fn = "handleKeyDown"
    /\ LastKey.enabled
    /\ LastKey.target.tagName = "TEXTAREA"
    /\ LastKey.event.key = "n" /\ PlainKey(LastKey.event)
    /\ LastKey.handler = "none"

\* a key of the table while the shortcuts are disabled by the prop
WitC20_DisabledByProp ==
    /\ ret.fn = "handleKeyDown"
    /\ ~props.enableKeyboardShortcuts
    /\ ~IsInput(LastKey.target)
    /\ TableHandler(LastKey.event) # "none"
    /\ LastKey.handler = "none"

(***************************************************************************)
(* PDFPage as it runs: renderPage is asynchronous, and its render effect   *)
(* calls it again whenever pdf, pageNumber, scale or rotation change.  A   *)
(* call between its try and its finally is a record of renderBodies: the   *)
(* props it closed over and the await it stands at.                        *)
(***************************************************************************)
PropPages == {1, 2}
PropScales == {1, 2}
PropRotations == {0, 90}

\* the pageNumber, scale and rotation props
PageProps == [pageNumber |-> currentPage, scale |-> currentScale, rotation |-> currentRotation]

\* if (renderingRef.current) return
RenderInProgressNever(ref) == FALSE
RenderInProgress(ref) == ref

RenderBody(pc, pageProps) ==
    [pc |-> pc, pageNumber |-> pageProps.pageNumber, scale |-> pageProps.scale,
     rotation |-> pageProps.rotation]

InitRender ==
    /\ pdfDocument = ExampleDocument
    /\ searchText = World
    /\ ret = NoReturn
    /\ highlightComponent = "lib"
    /\ pageComponent = "lib"
    /\ InitViewer

\* renderPage up to its first await, called by the render effect with the
\* props of the render that created it
renderPage(pageProps) ==
    IF RenderInProgress(renderingRef)
    THEN UNCHANGED <<renderingRef, renderTaskRef, renderBodies>>
    ELSE /\ renderingRef' = TRUE
         /\ renderTaskRef' = FALSE                            \* cancelRender()
         /\ renderBodies' = renderBodies \cup {RenderBody("getPage", pageProps)}

\* the first render of the component and its render effect
MountPage ==
    /\ mounted = "no"
    /\ mounted' = "yes"
    /\ renderPage(PageProps)
    /\ UNCHANGED <<searchVars, buildVars, loadVars, workerVars, viewerVars, appVars, viewVars,
                   canvas>>

\* the parent renders the page with other props; the render effect runs
\* because renderPage is a new function
PagePropsChange(pageNumber, scale, rotation) ==
    LET pageProps == [pageNumber |-> pageNumber, scale |-> scale, rotation |-> rotation]
    IN  /\ mounted = "yes"
        /\ pageProps # PageProps
        /\ currentPage' = pageNumber
        /\ currentScale' = scale
        /\ currentRotation' = rotation
        /\ renderPage(pageProps)
        /\ UNCHANGED <<searchVars, buildVars, loadVars, workerVars, viewerVars, appVars,
                       mounted, canvas, viewport, highlights, textLayer>>

\* finally { renderingRef.current = false; renderTaskRef.current = null }
RenderFinally(body) ==
    /\ renderingRef' = FALSE
    /\ renderTaskRef' = FALSE
    /\ renderBodies' = renderBodies \ {body}

\* pdf.getPage resolves: viewport state, canvas size, render task
GetPageDone(body) ==
    /\ body \in renderBodies /\ body.pc = "getPage"
    /\ mounted = "yes"
    /\ viewport' = getViewport(pdfDocument.pages[body.pageNumber], body.scale, body.rotation)
    /\ textLayer' = <<>>
    /\ renderTaskRef' = TRUE
    /\ renderBodies' = (renderBodies \ {body}) \cup {[body EXCEPT !.pc = "render"]}
    /\ UNCHANGED <<searchVars, buildVars, loadVars, workerVars, viewerVars, appVars, mounted,
                   renderingRef, canvas, currentPage, currentScale, currentRotation,
                   highlights>>

\* pdf.getPage rejects, or the canvas is gone after the unmount
GetPageFailed(body) ==
    /\ body \in renderBodies /\ body.pc = "getPage"
    /\ RenderFinally(body)
    /\ ret' = [fn |-> "onError", page |-> body.pageNumber, value |-> <<>>]
    /\ UNCHANGED <<pdfDocument, searchText, buildVars, loadVars, workerVars, viewerVars,
                   appVars, viewVars, mounted, canvas>>

\* task.promise resolves: the canvas shows the page at the body's viewport
RenderTaskDone(body) ==
    /\ body \in renderBodies /\ body.pc = "render"
    /\ canvas' = [pageNumber |-> body.pageNumber, scale |-> body.scale,
                  rotation |-> body.rotation]
    /\ renderBodies' = (renderBodies \ {body}) \cup {[body EXCEPT !.pc = "textLayer"]}
    /\ UNCHANGED <<searchVars, buildVars, loadVars, workerVars, viewerVars, appVars, viewVars,
                   mounted, renderingRef, renderTaskRef>>

\* task.promise rejects with an error of the renderer
RenderTaskFailed(body) ==
    /\ body \in renderBodies /\ body.pc = "render"
    /\ RenderFinally(body)
    /\ ret' = [fn |-> "onError", page |-> body.pageNumber, value |-> <<>>]
    /\ UNCHANGED <<pdfDocument, searchText, buildVars, loadVars, workerVars, viewerVars,
                   appVars, viewVars, mounted, canvas>>

\* the delay and renderTextLayer have ended: onPageRender, then finally
TextLayerDone(body) ==
    /\ body \in renderBodies /\ body.pc = "textLayer"
    /\ IF mounted = "yes"
       THEN textLayer' = TextLayerSpans(pageComponent, pdfDocument.pages[body.pageNumber],
                            getViewport(pdfDocument.pages[body.pageNumber], body.scale,
                                        body.rotation))
       ELSE UNCHANGED textLayer
    /\ RenderFinally(body)
    /\ ret' = [fn |-> "onPageRender", page |-> body.pageNumber, value |-> <<>>]
    /\ UNCHANGED <<pdfDocument, searchText, buildVars, loadVars, workerVars, viewerVars,
                   appVars, mounted, canvas, currentPage, currentScale, currentRotation,
                   viewport, highlights>>

\* the cleanup effect on unmount: cancelRender()
UnmountPage ==
    /\ mounted = "yes"
    /\ mounted' = "unmounted"
    /\ renderTaskRef' = FALSE
    /\ renderBodies' = {IF body.pc = "render" /\ renderTaskRef
                        THEN [body EXCEPT !.pc = "cancelled"] ELSE body :
                        body \in renderBodies}
    /\ UNCHANGED <<searchVars, buildVars, loadVars, workerVars, viewerVars, appVars, viewVars,
                   renderingRef, canvas>>

\* task.promise rejects with RenderingCancelledException: return, then finally
RenderCancelled(body) ==
    /\ body \in renderBodies /\ body.pc = "cancelled"
    /\ RenderFinally(body)
    /\ UNCHANGED <<searchVars, buildVars, loadVars, workerVars, viewerVars, appVars, viewVars,
                   mounted, canvas>>

RenderSteps ==
    \/ MountPage
    \/ \E pageNumber \in PropPages, scale \in PropScales, rotation \in PropRotations :
          PagePropsChange(pageNumber, scale, rotation)
    \/ \E body \in renderBodies : GetPageDone(body)
    \/ \E body \in renderBodies : RenderTaskDone(body)
    \/ \E body \in renderBodies : TextLayerDone(body)

NextRender ==
    \/ RenderSteps
    \/ \E body \in renderBodies : GetPageFailed(body)
    \/ \E body \in renderBodies : RenderTaskFailed(body)
    \/ UnmountPage
    \/ \E body \in renderBodies : RenderCancelled(body)

SpecRender == InitRender /\ [][NextRender]_vars

\* the page stays mounted, nothing fails, and every await resolves
SpecRenderLive ==
    /\ InitRender
    /\ [][RenderSteps]_vars
    /\ WF_vars(MountPage)
    /\ WF_vars(\E body \in renderBodies : GetPageDone(body))
    /\ WF_vars(\E body \in renderBodies : RenderTaskDone(body))
    /\ WF_vars(\E body \in renderBodies : TextLayerDone(body))

\* C21: whatever the props are, if they stay so from some point on, the
\* canvas is eventually rendered with them: props that differ from the
\* canvas lead to a canvas with those props or to another change of props.
CexC21_RendersLatestProps ==
    \A pageNumber \in PropPages, scale \in PropScales, rotation \in PropRotations :
        LET pageProps == [pageNumber |-> pageNumber, scale |-> scale,
                          rotation |-> rotation]
        IN  (PageProps = pageProps /\ canvas # pageProps)
                ~> (canvas = pageProps \/ PageProps # pageProps)

\* C23: at most one renderPage call is between its try and its finally,
\* renderingRef is set exactly while one is (so it is cleared when the
\* render ends by success, cancellation or error), and a call that arrives
\* while renderingRef is set starts nothing.
ThmC23_OneRenderAtATime ==
    /\ [](/\ Cardinality(renderBodies) <= 1
          /\ renderingRef <=> renderBodies # {})
    /\ [][(renderingRef /\ PageProps' # PageProps)
           => /\ renderBodies' = renderBodies
              /\ renderTaskRef' = renderTaskRef
              /\ renderingRef']_vars

\* props changed while a render of the earlier props is in progress
WitC23_ChangeDuringRender ==
    /\ mounted = "yes"
    /\ renderingRef
    /\ \E body \in renderBodies :
          /\ body.pc = "render"
          /\ body.pageNumber # currentPage

\* a render has ended by an error and the next one is in progress
WitC23_RenderAfterError ==
    /\ ret.fn = "onError"
    /\ renderingRef
    /\ \E body \in renderBodies : body.pc = "render"

\* a cancelled render has ended
WitC23_CancelledRenderEnded ==
    /\ mounted = "unmounted"
    /\ canvas = NoCanvas
    /\ viewport # NoViewport
    /\ ret = NoReturn
    /\ ~renderingRef

(***************************************************************************)
(* PDFViewer loading its file: the load effect sets a debounce timer every *)
(* time loadPDF is a new function (file, loading or pdf changed), the      *)
(* timer calls loadPDF, and each call that gets past its guards waits for  *)
(* PDFLoader.loadPDF and then for the metadata.  A document is named by    *)
(* the file it was loaded from.                                            *)
(***************************************************************************)
MaxLoads == 2

Files == {"a.pdf", "b.pdf"}

\* getFileKey on a string
getFileKey(fileProp) == fileProp

FreshLoad == CHOOSE n \in 0..MaxLoads : \A load \in loads : load.n # n

LoadCall(fileProp, pc, n) == [file |-> fileProp, pc |-> pc, n |-> n]

\* cleanup(): abort and drop the controller
cleanup(controller) == NoController

\* loadingAbortControllerRef.current?.signal.aborted
Aborted(controller) == ~controller.isNull /\ controller.aborted

InitLoad ==
    /\ pdfDocument = NullDocument
    /\ searchText = <<>>
    /\ ret = NoReturn
    /\ highlightComponent = "lib"
    /\ pageComponent = "lib"
    /\ InitViewer

\* a state change that makes loadPDF a new function sets the timer again
LoadEffect ==
    loadTimer' = (loadTimer \/ file' # file \/ loading' # loading \/ pdf' # pdf)

\* the parent passes another file
FileChange(newFile) ==
    /\ newFile # file
    /\ file' = newFile
    /\ loadTimer' = TRUE
    /\ UNCHANGED <<searchVars, buildVars, pageVars, workerVars, viewerVars, appVars, viewVars,
                   pdf, loading, fileKeyRef, lastSuccessfulFileRef,
                   loadingAbortControllerRef, loads>>

\* the debounce timer fires: loadPDF up to its await
StartLoadPDF ==
    LET fileKey == getFileKey(file)
        controller == [isNull |-> FALSE, aborted |-> FALSE]
    IN  /\ loadTimer
        /\ Cardinality(loads) < MaxLoads
        /\ IF \/ fileKey = lastSuccessfulFileRef /\ pdf # Null
              \/ fileKey = fileKeyRef /\ loading
           THEN /\ loadTimer' = FALSE
                /\ UNCHANGED <<loading, fileKeyRef, loadingAbortControllerRef, loads>>
           ELSE /\ fileKeyRef' = fileKey
                /\ loading' = TRUE
                /\ loadingAbortControllerRef' = cleanup(controller)
                /\ loads' = loads \cup {LoadCall(file, "loadPDF", FreshLoad)}
                /\ loadTimer' = (loading' # loading)
        /\ UNCHANGED <<searchVars, buildVars, pageVars, workerVars, viewerVars, appVars,
                       viewVars, file, pdf, lastSuccessfulFileRef>>

\* PDFLoader.loadPDF resolves with a document: setPdf, setNumPages
LoadDone(load) ==
    /\ load \in loads /\ load.pc = "loadPDF"
    /\ IF Aborted(loadingAbortControllerRef)
       THEN /\ loads' = loads \ {load}
            /\ loading' = FALSE
            /\ loadingAbortControllerRef' = NoController
            /\ UNCHANGED <<pdf, lastSuccessfulFileRef>>
       ELSE /\ pdf' = load.file
            /\ lastSuccessfulFileRef' = getFileKey(load.file)
            /\ loads' = (loads \ {load}) \cup {[load EXCEPT !.pc = "metadata"]}
            /\ UNCHANGED <<loading, loadingAbortControllerRef>>
    /\ file' = file
    /\ LoadEffect
    /\ UNCHANGED <<searchVars, buildVars, pageVars, workerVars, viewerVars, appVars, viewVars,
                   fileKeyRef>>

\* PDFLoader.loadPDF resolves with an error: setError, onError, finally
LoadFailed(load) ==
    /\ load \in loads /\ load.pc = "loadPDF"
    /\ loads' = loads \ {load}
    /\ loading' = FALSE
    /\ loadingAbortControllerRef' = NoController
    /\ ret' = IF Aborted(loadingAbortControllerRef) THEN ret
              ELSE [fn |-> "onError", page |-> 0, value |-> <<load.file>>]
    /\ file' = file /\ pdf' = pdf
    /\ LoadEffect
    /\ UNCHANGED <<pdfDocument, searchText, buildVars, pageVars, workerVars, viewerVars,
                   appVars, viewVars, fileKeyRef, lastSuccessfulFileRef>>

\* loadDocumentMetadata has ended: onDocumentLoad, finally
MetadataDone(load) ==
    /\ load \in loads /\ load.pc = "metadata"
    /\ loads' = loads \ {load}
    /\ loading' = FALSE
    /\ loadingAbortControllerRef' = NoController
    /\ ret' = [fn |-> "onDocumentLoad", page |-> 0, value |-> <<load.file>>]
    /\ file' = file /\ pdf' = pdf
    /\ LoadEffect
    /\ UNCHANGED <<pdfDocument, searchText, buildVars, pageVars, workerVars, viewerVars,
                   appVars, viewVars, fileKeyRef, lastSuccessfulFileRef>>

LoadSteps ==
    \/ \E newFile \in Files : FileChange(newFile)
    \/ StartLoadPDF
    \/ \E load \in loads : LoadDone(load)
    \/ \E load \in loads : MetadataDone(load)

NextLoad ==
    \/ LoadSteps
    \/ \E load \in loads : LoadFailed(load)

SpecLoad == InitLoad /\ [][NextLoad]_vars

\* C22: the load of a file that is no longer the file prop is cancelled or
\* its result ignored: a document is installed, and reported through
\* onDocumentLoad, only when it is the document of the current file.
CexC22_SupersededLoadIgnored ==
    [][/\ pdf' # pdf => pdf' = file
       /\ (ret' # ret /\ ret'.fn = "onDocumentLoad") => ret'.value = <<file>>]_vars

(***************************************************************************)
(* PDFLoader.loadPDF: the attempts of the loop and the attempt after the   *)
(* complete worker reset.  The environment decides how each attempt ends:  *)
(* outcomes[k] is the end of the k-th attempt made, "ok" or the message of *)
(* the error.  log lists the attempts made, in order.                      *)
(***************************************************************************)
MaxRetries == 2

Ok == "ok"
ErrorMessages ==
    {"Worker was terminated", "Invalid PDF structure"}
AttemptOutcomes == {Ok} \cup ErrorMessages

\* isWorkerError: the message holds one of the keywords
isWorkerErrorNever(message) == FALSE
isWorkerError(message) == message \in {"Worker was terminated"}

NoError == "null"

PDFLoadResult(ok, error, retriesUsed, log, worker) ==
    [pdf |-> ok, error |-> error, retriesUsed |-> retriesUsed, log |-> log,
     worker |-> worker]

Attempt(phase, outcome) == [phase |-> phase, outcome |-> outcome]

\* after the loop: the attempt with a fresh worker reset, or the failure
AfterLoop(outcomes, worker, lastError, retriesUsed, log) ==
    IF lastError = NoError \/ isWorkerError(lastError)
    THEN LET reset == resetWorkerConfiguration(worker)
             outcome == outcomes[Len(log) + 1]
             made == Append(log, Attempt("reset", outcome))
         IN  IF outcome = Ok
             THEN PDFLoadResult(TRUE, NoError, retriesUsed + 1, made, reset)
             ELSE PDFLoadResult(FALSE, outcome, retriesUsed, made, reset)
    ELSE PDFLoadResult(FALSE, lastError, retriesUsed, log, worker)

\* for (let attempt = 0; attempt <= retries; attempt++)
RECURSIVE LoadLoop(_, _, _, _, _, _, _)
LoadLoop(attempt, retries, outcomes, worker, lastError, retriesUsed, log) ==
    IF attempt > retries
    THEN AfterLoop(outcomes, worker, lastError, retriesUsed, log)
    ELSE LET outcome == outcomes[Len(log) + 1]
             made == Append(log, Attempt("loop", outcome))
         IN  IF outcome = Ok
             THEN PDFLoadResult(TRUE, NoError, attempt, made, worker)
             ELSE IF isWorkerError(outcome) /\ attempt < retries
                  THEN IF worker.workerRetryCount < MAX_WORKER_RETRIES
                       THEN LoadLoop(attempt + 1, retries, outcomes,
                                     retryWorkerConfiguration(worker), outcome,
                                     attempt + 1, made)
                       ELSE AfterLoop(outcomes, worker, outcome, attempt + 1, made) \* break
                  ELSE LoadLoop(attempt + 1, retries, outcomes, worker, outcome,
                                attempt + 1, made)

PDFLoaderLoadPDF(retries, outcomes, worker) ==
    LoadLoop(0, retries, outcomes, worker, NoError, 0, <<>>)

LoadOptions == [retries : -1..MaxRetries, outcomes : [1..(MaxRetries + 2) -> AttemptOutcomes]]

\* PDFLoader.loadPDF(options) run to its return
CallLoadPDF(options) ==
    LET result == PDFLoaderLoadPDF(options.retries, options.outcomes, WorkerNow)
    IN  /\ SetWorker(result.worker)
        /\ ret' = [fn |-> "PDFLoader.loadPDF", page |-> 0,
                   value |-> <<[retries |-> options.retries,
                                workerRetryCount |-> workerRetryCount,
                                pdf |-> result.pdf, error |-> result.error,
                                retriesUsed |-> result.retriesUsed, log |-> result.log]>>]
        /\ UNCHANGED <<pdfDocument, searchText, buildVars, pageVars, loadVars, viewVars,
                       appVars, viewerVars>>

NextLoader ==
    \/ \E options \in LoadOptions : CallLoadPDF(options)
    \/ CallRetryWorkerConfiguration

SpecLoader == InitWorkerCalls /\ [][NextLoader]_vars

\* the last call of PDFLoader.loadPDF
Loaded == ret.fn = "PDFLoader.loadPDF"
LastLoad == ret.value[1]

LoopAttempts(log) == {k \in 1..Len(log) : log[k].phase = "loop"}
ResetAttempts(log) == {k \in 1..Len(log) : log[k].phase = "reset"}
FailedAttempts(log) == {k \in 1..Len(log) : log[k].outcome # Ok}

\* the loop ended after a worker error for which there was no fallback left
BrokeOnNoFallback ==
    /\ Loaded
    /\ LoopAttempts(LastLoad.log) # {}
    /\ LET k == Cardinality(LoopAttempts(LastLoad.log))
       IN  /\ k <= LastLoad.retries
           /\ LastLoad.log[k].outcome \in ErrorMessages
           /\ LastLoad.log[k].outcome = "Worker was terminated"
           /\ LastLoad.workerRetryCount + (k - 1) >= MAX_WORKER_RETRIES

\* C24: the loop makes at most retries+1 attempts and none after a success;
\* one attempt after a worker reset follows if and only if the loop ended
\* without success and its last error was a worker error (or no attempt
\* ran); a worker error with no fallback left ends the loop at once; a
\* last error that is no worker error returns the failure with no reset
\* attempt.
ThmC24_AttemptsAndReset ==
    Loaded =>
        LET log == LastLoad.log
            loop == LoopAttempts(log)
            reset == ResetAttempts(log)
            n == Cardinality(loop)
            loopSucceeded == n > 0 /\ log[n].outcome = Ok
        IN  /\ n <= LastLoad.retries + 1
            /\ loop = 1..n
            /\ \A k \in 1..Len(log) : log[k].outcome = Ok => k = Len(log)
            /\ Cardinality(reset) <= 1
            /\ reset # {} <=>
                  /\ ~loopSucceeded
                  /\ n = 0 \/ log[n].outcome = "Worker was terminated"
            /\ (~loopSucceeded /\ n < LastLoad.retries + 1) =>
                  /\ log[n].outcome = "Worker was terminated"
                  /\ LastLoad.workerRetryCount + (n - 1) >= MAX_WORKER_RETRIES
                  /\ reset # {}
            /\ (~loopSucceeded /\ n > 0 /\ log[n].outcome = "Invalid PDF structure") =>
                  /\ reset = {}
                  /\ ~LastLoad.pdf
                  /\ LastLoad.error = "Invalid PDF structure"
            /\ reset # {} =>
                  /\ isWorkerConfigured
                  /\ workerRetryCount = 0

\* the loop broke off before its last attempt, and the reset attempt loaded
WitC24_NoFallbackThenReset ==
    /\ BrokeOnNoFallback
    /\ Cardinality(LoopAttempts(LastLoad.log)) = 2
    /\ LastLoad.retries = 2
    /\ ResetAttempts(LastLoad.log) # {}
    /\ LastLoad.pdf

\* every attempt of the loop failed, the last one with no worker error
WitC24_FinalNonWorkerError ==
    /\ Loaded
    /\ LastLoad.retries = 2
    /\ Len(LastLoad.log) = 3
    /\ LastLoad.log[1].outcome = "Worker was terminated"
    /\ LastLoad.log[3].outcome = "Invalid PDF structure"
    /\ ~LastLoad.pdf

\* C25: retriesUsed is the number of failed attempts made before the
\* result is returned, whether the result is a document loaded in the loop,
\* a document loaded by the attempt after the reset, or the failure.
CexC25_RetriesUsed ==
    Loaded => LastLoad.retriesUsed = Cardinality(FailedAttempts(LastLoad.log))

====
